---------------------------- MODULE Spec2Model ----------------------------
(***************************************************************************)
(* Alert lifecycle, rule evaluation and background reconciliation of the   *)
(* MoveInSync alert management backend.                                    *)
(*                                                                         *)
(* Time is counted in minutes.  An asynchronous operation (a request       *)
(* handler or the cron callback) is a task; a task runs from one storage   *)
(* await to the next in one step.  A storage call made while Redis is      *)
(* connected is real I/O: the task is suspended and any other task may run *)
(* before it resumes.  A storage call made while Redis is not connected    *)
(* touches the in-process Map only: the await resumes in the same          *)
(* microtask chain and nothing else can run in between; the task keeps the *)
(* variable turn until it suspends or ends.  A write takes its effect in   *)
(* the step that issues it; getAlert and the snapshot of a sweep are read  *)
(* in the step that issues them, the snapshot of processAlert in the step  *)
(* that resumes from it.                                                   *)
(*                                                                         *)
(* The variable arrivals names the scenario of a behaviour: which requests *)
(* arrive, whether operations overlap, and how the Redis server behaves.   *)
(* In the scenario "pipelined" the single Redis connection answers its     *)
(* commands in the order they were sent: a suspended task resumes when the *)
(* replies to all the commands of its storage call have arrived, and the   *)
(* replies to commands sent earlier by other tasks arrive before them.     *)
(***************************************************************************)
EXTENDS Integers, Sequences, FiniteSets, TLC

-----------------------------------------------------------------------------
(* Bounds of the model *)

\* alert ids (POST /alerts is not taken once they are used up)
MaxAlerts == 2

\* alert ids when operations interleave
MaxRaceAlerts == 1

\* operations in flight at once
MaxTasks == 2

MaxTicks == 1

\* time steps where an alert is followed past its escalation by age
MaxAgeTicks == 2

MaxHistory == 3

\* history events of an alert beyond which no request is taken where
\* progress is checked
MaxLiveHistory == 2

\* entries of a driver's in-process index beyond which no renew request is
\* taken
MaxIndex == 4

-----------------------------------------------------------------------------
(* Program constants *)

\* process.env.ESCALATION_COOLDOWN_MINUTES || 60
ESCALATION_COOLDOWN_MINUTES == 60

\* process.env.ALERT_EXPIRY_DAYS || 30
ALERT_EXPIRY_DAYS == 30

MinutesPerDay == 1440

Null == -1

NullStr == "null"

Undef == "undefined"

\* metadata values: the boolean true, the string "true", the boolean false
BoolTrue == "b:true"

StrTrue == "s:true"

BoolFalse == "b:false"

\* a metadata value that is neither a boolean nor the string 'true'
StrYes == "s:yes"

AlertIds == 1 .. MaxAlerts

TaskIds == 1 .. MaxTasks

MetaKeys == {"driverId", "vehicleId", "driver_rested", "feedback_resolved",
             "document_valid"}

NoAlert == [alertId |-> 0]

Drivers == {"DRV001", "DRV002"}

Vehicles == {"VEH001"}

-----------------------------------------------------------------------------
(* Rule configuration *)

NoRule == [none |-> TRUE]

Rule(count, window, days, sev, close) ==
    [escalate_if_count |-> count, window_mins |-> window,
     escalate_if_days |-> days, escalate_to_severity |-> sev,
     auto_close_if |-> close]

SourceTypes == {"overspeed", "feedback_negative", "compliance",
                "document_expiry", "vehicle_maintenance", "driver_fatigue",
                "unknown_type"}

\* RuleEngine.getDefaultRules; an absent field is 0 or "" (both falsy)
getDefaultRules ==
    [s \in SourceTypes |->
        CASE s = "overspeed" -> Rule(3, 60, 0, "CRITICAL", "speed_normalized")
          [] s = "feedback_negative" ->
                Rule(2, 1440, 0, "HIGH", "feedback_resolved")
          [] s = "compliance" -> Rule(0, 0, 7, "HIGH", "document_valid")
          [] s = "document_expiry" ->
                Rule(0, 0, 3, "CRITICAL", "document_renewed")
          [] s = "vehicle_maintenance" ->
                Rule(0, 0, 5, "HIGH", "maintenance_completed")
          [] s = "driver_fatigue" -> Rule(1, 30, 0, "CRITICAL", "driver_rested")
          [] OTHER -> NoRule]

\* RuleEngine.rules when rules.json holds the JSON value null: loadRules
\* returns what JSON.parse gives
NullRules == [null |-> TRUE]

\* the request bodies of PUT /rules: a new source type, and a configured
\* source type given a rule with auto_close_if alone
Partials ==
    {"unknown_type" :> Rule(1, 30, 0, "HIGH", "document_valid"),
     "compliance" :> Rule(0, 0, 0, Undef, "document_renewed")}

\* a request body of PUT /rules that is not a mapping from source type to
\* rule object: a configured source type given null, which is falsy as an
\* absent rule is (a body without rules is answered 400 and changes nothing)
MalformedRules == {"compliance" :> NoRule}

\* the request bodies of PUT /rules that reach RuleEngine.updateRules
RuleUpdates == Partials \cup MalformedRules

\* { ...this.rules, ...newRules } with the fields of a named rule merged
\* into the previous rule of its source type
mergeFields(old, partial) ==
    [s \in SourceTypes |->
        IF s \notin DOMAIN partial
        THEN IF old = NullRules THEN NoRule ELSE old[s]
        ELSE IF old = NullRules \/ old[s] = NoRule THEN partial[s]
        ELSE IF partial[s] = NoRule THEN old[s]
        ELSE Rule(IF partial[s].escalate_if_count = 0
                  THEN old[s].escalate_if_count
                  ELSE partial[s].escalate_if_count,
                  IF partial[s].window_mins = 0 THEN old[s].window_mins
                  ELSE partial[s].window_mins,
                  IF partial[s].escalate_if_days = 0
                  THEN old[s].escalate_if_days
                  ELSE partial[s].escalate_if_days,
                  IF partial[s].escalate_to_severity = Undef
                  THEN old[s].escalate_to_severity
                  ELSE partial[s].escalate_to_severity,
                  IF partial[s].auto_close_if = ""
                  THEN old[s].auto_close_if
                  ELSE partial[s].auto_close_if)]

\* { ...this.rules, ...newRules }
merge(old, partial) ==
    [s \in SourceTypes |->
        IF s \in DOMAIN partial THEN partial[s]
        ELSE IF old = NullRules THEN NoRule ELSE old[s]]

-----------------------------------------------------------------------------
(* Alert entity (models/Alert.js) *)

Event(action, t, details, previousStatus, previousSeverity) ==
    [action |-> action, timestamp |-> t, details |-> details,
     previousStatus |-> previousStatus, previousSeverity |-> previousSeverity]

addHistoryEvent(alert, action, t, details, previousStatus, previousSeverity) ==
    [alert EXCEPT !.history =
        Append(@, Event(action, t, details, previousStatus, previousSeverity))]

\* new Alert(data) for request data without alertId: a fresh id, the
\* defaults of the constructor and the CREATED event
Alert(id, sourceType, severity, metadata, t) ==
    addHistoryEvent(
        [alertId |-> id, sourceType |-> sourceType,
         severity |-> IF severity = Undef THEN "MEDIUM" ELSE severity,
         timestamp |-> t, status |-> "OPEN", metadata |-> metadata,
         history |-> << >>, resolution |-> NullStr, resolvedAt |-> Null,
         expiredAt |-> Null, lastEscalatedAt |-> Null, escalationCount |-> 0],
        "CREATED", t, "Alert created", NullStr, NullStr)

\* Alert.toJSON followed by JSON.stringify: the stored record
toJSON(alert) ==
    [alertId |-> alert.alertId, sourceType |-> alert.sourceType,
     severity |-> alert.severity, timestamp |-> alert.timestamp,
     status |-> alert.status, metadata |-> alert.metadata,
     history |-> alert.history, resolution |-> alert.resolution,
     resolvedAt |-> alert.resolvedAt, expiredAt |-> alert.expiredAt,
     lastEscalatedAt |-> alert.lastEscalatedAt,
     escalationCount |-> alert.escalationCount]

\* new Alert(data) that adds the CREATED event for a stored record too
fromJSONCreates(data) ==
    addHistoryEvent(
        [alertId |-> data.alertId, sourceType |-> data.sourceType,
         severity |-> IF data.severity = Undef THEN "MEDIUM" ELSE data.severity,
         timestamp |-> data.timestamp,
         status |-> IF data.status = Undef THEN "OPEN" ELSE data.status,
         metadata |-> data.metadata, history |-> data.history,
         resolution |->
            IF data.resolution = Undef THEN NullStr ELSE data.resolution,
         resolvedAt |-> data.resolvedAt, expiredAt |-> data.expiredAt,
         lastEscalatedAt |-> data.lastEscalatedAt,
         escalationCount |-> data.escalationCount],
        "CREATED", data.timestamp, "Alert created", NullStr, NullStr)

\* new Alert(data) for a stored record: data.alertId is set, so no CREATED
\* event is added; every field is copied, a falsy one takes its default
fromJSON(data) ==
    [alertId |-> data.alertId, sourceType |-> data.sourceType,
     severity |-> IF data.severity = Undef THEN "MEDIUM" ELSE data.severity,
     timestamp |-> data.timestamp,
     status |-> IF data.status = Undef THEN "OPEN" ELSE data.status,
     metadata |-> data.metadata, history |-> data.history,
     resolution |->
        IF data.resolution = Undef THEN NullStr ELSE data.resolution,
     resolvedAt |-> data.resolvedAt, expiredAt |-> data.expiredAt,
     lastEscalatedAt |-> data.lastEscalatedAt,
     escalationCount |-> data.escalationCount]

\* escalate that leaves escalationCount as it is
escalateUncounted(alert, newSeverity, reason, t) ==
    addHistoryEvent(
        [alert EXCEPT !.status = "ESCALATED", !.severity = newSeverity,
                      !.lastEscalatedAt = t],
        "ESCALATED", t, reason, alert.status, alert.severity)

\* escalate that records the status and severity after the change
escalateRecordsNew(alert, newSeverity, reason, t) ==
    addHistoryEvent(
        [alert EXCEPT !.status = "ESCALATED", !.severity = newSeverity,
                      !.lastEscalatedAt = t,
                      !.escalationCount = @ + 1],
        "ESCALATED", t, reason, "ESCALATED", newSeverity)

escalate(alert, newSeverity, reason, t) ==
    addHistoryEvent(
        [alert EXCEPT !.status = "ESCALATED", !.severity = newSeverity,
                      !.lastEscalatedAt = t,
                      !.escalationCount = @ + 1],
        "ESCALATED", t, reason, alert.status, alert.severity)

autoClose(alert, reason, t) ==
    addHistoryEvent([alert EXCEPT !.status = "AUTO_CLOSED"],
                    "AUTO_CLOSED", t, reason, alert.status, NullStr)

\* resolve that leaves resolvedAt as it is
resolveUnstamped(alert, resolution, t) ==
    addHistoryEvent(
        [alert EXCEPT !.status = "RESOLVED", !.resolution = resolution],
        "RESOLVED", t,
        IF resolution = Undef THEN "Manually resolved" ELSE resolution,
        alert.status, NullStr)

\* resolve that clears the escalation fields
resolveClears(alert, resolution, t) ==
    addHistoryEvent(
        [alert EXCEPT !.status = "RESOLVED", !.resolution = resolution,
                      !.resolvedAt = t, !.lastEscalatedAt = Null,
                      !.escalationCount = 0],
        "RESOLVED", t,
        IF resolution = Undef THEN "Manually resolved" ELSE resolution,
        alert.status, NullStr)

resolve(alert, resolution, t) ==
    addHistoryEvent(
        [alert EXCEPT !.status = "RESOLVED", !.resolution = resolution,
                      !.resolvedAt = t],
        "RESOLVED", t,
        IF resolution = Undef THEN "Manually resolved" ELSE resolution,
        alert.status, NullStr)

expire(alert, t) ==
    addHistoryEvent([alert EXCEPT !.status = "EXPIRED", !.expiredAt = t],
                    "EXPIRED", t, "Alert expired", alert.status, NullStr)

isActive(alert) == alert.status \notin {"RESOLVED", "AUTO_CLOSED", "EXPIRED"}

canEscalate(alert, t) ==
    IF alert.lastEscalatedAt = Null THEN TRUE
    ELSE t - alert.lastEscalatedAt > ESCALATION_COOLDOWN_MINUTES

\* Alert.getAge() > days
agedMoreThan(alert, days, t) == t - alert.timestamp > days * MinutesPerDay

\* Alert.getAge() >= days, both sides in minutes
agedAtLeast(alert, days, t) == t - alert.timestamp >= days * MinutesPerDay

-----------------------------------------------------------------------------
(* Rule engine (services/RuleEngine.js) *)

NoAction == [type |-> "none"]

\* the evaluation ends by a TypeError
Thrown == [type |-> "throw"]

\* the alerts counted by the count-in-window rule
recentAlerts(alert, rule, allAlerts, t) ==
    {i \in 1 .. Len(allAlerts) :
        /\ allAlerts[i].sourceType = alert.sourceType
        /\ isActive(allAlerts[i])
        /\ allAlerts[i].timestamp >= t - rule.window_mins
        /\ \/ allAlerts[i].metadata.driverId = alert.metadata.driverId
           \/ allAlerts[i].metadata.vehicleId = alert.metadata.vehicleId}

\* checkEscalationRules whose age rule does not look at the status
checkEscalationRulesAnyStatus(alert, rule, allAlerts, t) ==
    IF ~canEscalate(alert, t) THEN NoAction
    ELSE IF /\ rule.escalate_if_count # 0
            /\ rule.window_mins # 0
            /\ Cardinality(recentAlerts(alert, rule, allAlerts, t))
                   >= rule.escalate_if_count
    THEN [type |-> "escalate", newSeverity |-> rule.escalate_to_severity,
          reason |-> "count in window"]
    ELSE IF /\ rule.escalate_if_days # 0
            /\ agedAtLeast(alert, rule.escalate_if_days, t)
    THEN [type |-> "escalate", newSeverity |-> rule.escalate_to_severity,
          reason |-> "Alert aged"]
    ELSE NoAction

checkEscalationRules(alert, rule, allAlerts, t) ==
    IF ~canEscalate(alert, t) THEN NoAction
    ELSE IF /\ rule.escalate_if_count # 0
            /\ rule.window_mins # 0
            /\ Cardinality(recentAlerts(alert, rule, allAlerts, t))
                   >= rule.escalate_if_count
    THEN [type |-> "escalate", newSeverity |-> rule.escalate_to_severity,
          reason |-> "count in window"]
    ELSE IF /\ rule.escalate_if_days # 0
            /\ alert.status = "OPEN"
            /\ agedAtLeast(alert, rule.escalate_if_days, t)
    THEN [type |-> "escalate", newSeverity |-> rule.escalate_to_severity,
          reason |-> "Alert aged"]
    ELSE NoAction

\* alert.metadata[condition]
metaValue(metadata, key) ==
    IF key \in DOMAIN metadata THEN metadata[key] ELSE Undef

\* checkAutoCloseRules that takes the string 'true' only
checkAutoCloseRulesStringOnly(alert, rule) ==
    IF rule.auto_close_if = "" THEN NoAction
    ELSE IF metaValue(alert.metadata, rule.auto_close_if) = StrTrue
    THEN [type |-> "auto_close", reason |-> "Auto-closed, condition met"]
    ELSE NoAction

\* checkAutoCloseRules that takes every truthy value
checkAutoCloseRulesTruthy(alert, rule) ==
    IF rule.auto_close_if = "" THEN NoAction
    ELSE IF metaValue(alert.metadata, rule.auto_close_if)
                \notin {Undef, BoolFalse}
    THEN [type |-> "auto_close", reason |-> "Auto-closed, condition met"]
    ELSE NoAction

checkAutoCloseRules(alert, rule) ==
    IF rule.auto_close_if = "" THEN NoAction
    ELSE IF \/ metaValue(alert.metadata, rule.auto_close_if) = BoolTrue
            \/ metaValue(alert.metadata, rule.auto_close_if) = StrTrue
            \/ /\ rule.auto_close_if \in {"document_valid", "document_renewed",
                                          "maintenance_completed"}
               /\ metaValue(alert.metadata, rule.auto_close_if) = BoolTrue
    THEN [type |-> "auto_close", reason |-> "Auto-closed, condition met"]
    ELSE NoAction

\* evaluateAlert that checks the auto-close rule first
evaluateAlertCloseFirst(alert, allAlerts, ruleSet, t) ==
    IF ruleSet = NullRules THEN Thrown
    ELSE IF ruleSet[alert.sourceType] = NoRule THEN NoAction
    ELSE IF checkAutoCloseRules(alert, ruleSet[alert.sourceType]) # NoAction
    THEN checkAutoCloseRules(alert, ruleSet[alert.sourceType])
    ELSE checkEscalationRules(alert, ruleSet[alert.sourceType], allAlerts, t)

\* evaluateAlert that gives a source type without a rule an age rule of
\* seven days
evaluateAlertFallback(alert, allAlerts, ruleSet, t) ==
    IF ruleSet = NullRules THEN Thrown
    ELSE IF ruleSet[alert.sourceType] = NoRule
    THEN checkEscalationRules(alert, Rule(0, 0, 7, "HIGH", ""), allAlerts, t)
    ELSE IF checkEscalationRules(alert, ruleSet[alert.sourceType],
                                 allAlerts, t) # NoAction
    THEN checkEscalationRules(alert, ruleSet[alert.sourceType], allAlerts, t)
    ELSE checkAutoCloseRules(alert, ruleSet[alert.sourceType])

\* this.rules[alert.sourceType] throws when this.rules is null
evaluateAlert(alert, allAlerts, ruleSet, t) ==
    IF ruleSet = NullRules THEN Thrown
    ELSE IF ruleSet[alert.sourceType] = NoRule THEN NoAction
    ELSE IF checkEscalationRules(alert, ruleSet[alert.sourceType],
                                 allAlerts, t) # NoAction
    THEN checkEscalationRules(alert, ruleSet[alert.sourceType], allAlerts, t)
    ELSE checkAutoCloseRules(alert, ruleSet[alert.sourceType])

executeAction(alert, action, t) ==
    CASE action.type = "escalate" ->
            escalate(alert, action.newSeverity, action.reason, t)
      [] action.type = "auto_close" -> autoClose(alert, action.reason, t)
      [] OTHER -> alert

-----------------------------------------------------------------------------
(* State *)

VARIABLES
    now,              \* Date.now(), in minutes
    ticks,            \* number of time steps taken so far
    connected,        \* RedisManager.isConnected
    rules,            \* RuleEngine.rules
    redisStore,       \* the records alert:<id> held by Redis
    memoryStore,      \* AlertStorageManager.memoryStore
    processingQueue,  \* AlertService.processingQueue
    nextId,           \* the next fresh alert id (uuidv4)
    tasks,            \* the asynchronous operations in flight
    turn,             \* the task running its microtask chain, 0 if none
    arrivals,         \* the scenario: "overlapping", "serial", "pipelined", ...
    quiet,            \* 2 after a complete cron sweep with nothing since
    lastEscApplied,   \* per alert id, when escalate() was last applied
    redisUp,          \* the Redis server answers the client's commands
    alertsByDriver,   \* AlertStorageManager.alertsByDriver
    alertsByVehicle,  \* AlertStorageManager.alertsByVehicle
    driverZset,       \* the sorted sets driver:<id>:alerts held by Redis
    vehicleZset,      \* the sorted sets vehicle:<id>:alerts held by Redis
    saved,            \* the ids passed to saveAlert and not to deleteAlert
    pending,          \* the tasks awaiting a reply of Redis, by command sent
    wait              \* per task, the replies to come after the next one

\* the secondary indices, and the record of the saves
indices == <<alertsByDriver, alertsByVehicle, driverZset, vehicleZset, saved>>

\* the commands sent to Redis and not yet answered
pipeline == <<pending, wait>>

vars == <<now, ticks, connected, rules, redisStore, memoryStore,
          processingQueue, nextId, tasks, turn, pipeline, arrivals, quiet,
          lastEscApplied, redisUp, indices, pipeline>>

Idle == [kind |-> "idle", pc |-> "idle", alert |-> NoAlert, list |-> << >>,
         arg |-> Undef, expiryTime |-> 0, skipped |-> FALSE, threw |-> FALSE]

\* metadata of a request body: the driver, the vehicle and one condition key
Metadata(driverId, vehicleId, key, value) ==
    [k \in MetaKeys |->
        IF k = "driverId" THEN driverId
        ELSE IF k = "vehicleId" THEN vehicleId
        ELSE IF k = key THEN value ELSE Undef]

\* the request bodies of POST /alerts
CreateInputs ==
    {[sourceType |-> s, severity |-> Undef,
      metadata |-> Metadata("DRV001", Undef,
                            getDefaultRules[s].auto_close_if, v)] :
        s \in {"driver_fatigue", "feedback_negative", "compliance"},
        v \in {Undef, BoolTrue}}

\* the request bodies taken where progress is checked
LiveInputs == {d \in CreateInputs : d.sourceType = "driver_fatigue"}

\* the request bodies taken where the rules change: the source type with an
\* age rule, and a source type the default rules do not name
ConfInputs ==
    {d \in CreateInputs : d.sourceType = "compliance"}
        \cup {[sourceType |-> "unknown_type", severity |-> Undef,
                metadata |-> Metadata("DRV001", Undef, "document_valid",
                                      Undef)]}

\* the request bodies taken where Redis comes and goes: two drivers
StoreInputs ==
    {[sourceType |-> "feedback_negative", severity |-> Undef,
      metadata |-> Metadata(d, Undef, "feedback_resolved", Undef)] :
        d \in Drivers}

\* the request bodies taken where alerts of several drivers and vehicles
\* meet: two drivers, with and without a vehicle, and one alert created with
\* the highest severity
FleetInputs ==
    {[sourceType |-> "feedback_negative", severity |-> Undef,
      metadata |-> Metadata(d, v, "feedback_resolved", Undef)] :
        d \in Drivers, v \in Vehicles \cup {Undef}}
        \cup {[sourceType |-> "feedback_negative", severity |-> "CRITICAL",
                metadata |-> Metadata("DRV001", Undef, "feedback_resolved",
                                      Undef)]}

\* the request bodies taken where the single commands are followed: an
\* alert escalated by its first evaluation, with and without a vehicle, and
\* an alert closed by its first evaluation
PipeInputs ==
    {[sourceType |-> "driver_fatigue", severity |-> Undef,
      metadata |-> Metadata("DRV001", v, "driver_rested", Undef)] :
        v \in Vehicles \cup {Undef}}
        \cup {[sourceType |-> "compliance", severity |-> Undef,
                metadata |-> Metadata("DRV001", Undef, "document_valid",
                                      BoolTrue)]}

\* the request bodies taken where the auto-close condition is looked at:
\* the condition key absent, true, 'true', false and 'yes'
CloseInputs ==
    {[sourceType |-> "compliance", severity |-> Undef,
      metadata |-> Metadata("DRV001", Undef, "document_valid", v)] :
        v \in {Undef, BoolTrue, StrTrue, BoolFalse, StrYes}}

\* rules.json with a compliance rule that names no auto-close condition
NoCloseRules ==
    [getDefaultRules EXCEPT
        !["compliance"] = Rule(0, 0, 7, "HIGH", "")]

\* the request bodies taken where an alert is followed past its escalation
\* by age: the source type with an age rule
AgeInputs == {d \in CreateInputs : d.sourceType = "compliance"}

Inputs ==
    CASE arrivals = "live" -> LiveInputs
      [] arrivals = "ageing" -> AgeInputs
      [] arrivals = "conditions" -> CloseInputs
      [] arrivals = "pipelined" -> PipeInputs
      [] arrivals = "fleet" -> FleetInputs
      [] arrivals = "configured" -> ConfInputs
      [] arrivals = "failover" -> StoreInputs
      [] OTHER -> CreateInputs

\* the request bodies of PATCH /alerts/:alertId/resolve
Resolutions == {"Driver counseled"}

\* the time steps of the model: just over the cooldown (and over the
\* 30-minute window), and just over the retention time
Jumps == {ESCALATION_COOLDOWN_MINUTES + 1,
          ALERT_EXPIRY_DAYS * MinutesPerDay + 1}

\* the time steps where the rules change: the age threshold of the
\* compliance rule to the minute, and just over the retention time
ConfJumps == {getDefaultRules["compliance"].escalate_if_days * MinutesPerDay,
              ALERT_EXPIRY_DAYS * MinutesPerDay + 1}

\* the time steps where several drivers meet: just over the cooldown, and
\* just over the window of the feedback_negative rule
FleetJumps == {ESCALATION_COOLDOWN_MINUTES + 1,
               getDefaultRules["feedback_negative"].window_mins + 1}

\* the time steps where an alert is followed past its escalation by age:
\* the age threshold of the compliance rule, and just over the cooldown
AgeJumps == {getDefaultRules["compliance"].escalate_if_days * MinutesPerDay,
             ESCALATION_COOLDOWN_MINUTES + 1}

\* the time steps taken in one behaviour
TickLimit == IF arrivals = "ageing" THEN MaxAgeTicks ELSE MaxTicks

JumpsNow ==
    CASE arrivals = "fleet" -> FleetJumps
      [] arrivals = "ageing" -> AgeJumps
      [] arrivals \in {"live", "failover", "pipelined", "conditions"} ->
            {ESCALATION_COOLDOWN_MINUTES + 1}
      [] arrivals = "configured" -> ConfJumps
      [] OTHER -> Jumps

-----------------------------------------------------------------------------
(* Storage (services/AlertStorageManager.js, config/database.js) *)

storedAlerts(store) ==
    LET kept == SelectSeq([i \in AlertIds |-> store[i]],
                          LAMBDA r : r # NoAlert)
    IN  [i \in 1 .. Len(kept) |-> fromJSON(kept[i])]

\* RedisManager.keys and get: [] and null when the command fails
getAllAlerts ==
    IF connected
    THEN IF redisUp THEN storedAlerts(redisStore) ELSE << >>
    ELSE storedAlerts(memoryStore)

getAlert(id) ==
    IF connected
    THEN IF redisUp /\ redisStore[id] # NoAlert THEN fromJSON(redisStore[id])
         ELSE NoAlert
    ELSE IF memoryStore[id] = NoAlert THEN NoAlert
         ELSE fromJSON(memoryStore[id])

\* updateMemoryIndices: the id is pushed onto the array of its key
push(index, key, id) ==
    IF key = Undef THEN index ELSE [index EXCEPT ![key] = Append(@, id)]

\* RedisManager.zadd with the score Date.now()
zadd(zsets, key, score, id) ==
    IF key = Undef THEN zsets ELSE [zsets EXCEPT ![key][id] = score]

\* saveAlert: the record and its index entries go to Redis when connected
\* (RedisManager.set and zadd return null when the command fails), else to
\* the Map and the arrays
saveAlert(alert) ==
    /\ saved' = saved \cup {alert.alertId}
    /\ IF connected
       THEN /\ IF redisUp
               THEN /\ redisStore' =
                         [redisStore EXCEPT ![alert.alertId] = toJSON(alert)]
                    /\ driverZset' = zadd(driverZset, alert.metadata.driverId,
                                          now, alert.alertId)
                    /\ vehicleZset' = zadd(vehicleZset,
                                           alert.metadata.vehicleId, now,
                                           alert.alertId)
               ELSE UNCHANGED <<redisStore, driverZset, vehicleZset>>
            /\ UNCHANGED <<memoryStore, alertsByDriver, alertsByVehicle>>
       ELSE /\ memoryStore' =
                 [memoryStore EXCEPT ![alert.alertId] = toJSON(alert)]
            /\ alertsByDriver' = push(alertsByDriver, alert.metadata.driverId,
                                      alert.alertId)
            /\ alertsByVehicle' = push(alertsByVehicle,
                                       alert.metadata.vehicleId, alert.alertId)
            /\ UNCHANGED <<redisStore, driverZset, vehicleZset>>

\* RedisManager.zrevrange(key, 0, limit - 1): the members by falling score,
\* members of one score by falling member
zrevrange(zset, limit) ==
    LET members == {i \in AlertIds : zset[i] # Null}
        before(i) == {j \in members :
                         \/ zset[j] > zset[i]
                         \/ zset[j] = zset[i] /\ j > i}
        n == IF Cardinality(members) < limit THEN Cardinality(members)
             ELSE limit
    IN  [k \in 1 .. n |->
            CHOOSE i \in members : Cardinality(before(i)) = k - 1]

\* the alerts of the ids that have a record in the store
found(store, ids) ==
    LET kept == SelectSeq(ids, LAMBDA i : store[i] # NoAlert)
    IN  [k \in 1 .. Len(kept) |-> fromJSON(store[kept[k]])]

\* alertIds.slice(0, limit)
slice(alertIds, limit) ==
    SubSeq(alertIds, 1, IF Len(alertIds) < limit THEN Len(alertIds) ELSE limit)

\* getAlertsByDriver: zrevrange and getAlert when connected, else the slice
\* of the driver's array looked up in the Map
getAlertsByDriver(driverId, limit) ==
    IF connected
    THEN IF redisUp
         THEN found(redisStore, zrevrange(driverZset[driverId], limit))
         ELSE << >>
    ELSE found(memoryStore, slice(alertsByDriver[driverId], limit))

\* after an awaited storage call: suspended on I/O when Redis is connected
Yield(t) == IF connected THEN 0 ELSE t

\* the Redis client sends the commands of every operation over one
\* connection and Redis answers them in the order sent: where the model
\* follows the single commands, an operation resumes when the reply to its
\* own command is the next to come
Pipelined == arrivals = "pipelined"

\* the commands of saveAlert: SET, and ZADD for the driver and the vehicle
saveTrips(alert) ==
    1 + (IF alert.metadata.driverId = Undef THEN 0 ELSE 1)
      + (IF alert.metadata.vehicleId = Undef THEN 0 ELSE 1)

\* the commands of getAllAlerts: KEYS, and one GET for every key
allTrips == 1 + Len(storedAlerts(redisStore))

Without(q, t) == SelectSeq(q, LAMBDA u : u # t)

\* the task awaits a storage call of so many commands, one after the other
Suspend(t, trips) ==
    /\ turn' = Yield(t)
    /\ pending' = IF Pipelined THEN Append(Without(pending, t), t) ELSE pending
    /\ wait' = IF Pipelined THEN [wait EXCEPT ![t] = trips - 1] ELSE wait

\* the task goes on in its microtask chain
Proceed(t) ==
    /\ turn' = t
    /\ pending' = Without(pending, t)
    /\ UNCHANGED wait

\* the task ends
Release(t) ==
    /\ turn' = 0
    /\ pending' = Without(pending, t)
    /\ UNCHANGED wait

\* the operations resume in any order
CanRunUnordered(t) == turn \in {0, t}

CanRun(t) ==
    \/ turn = t
    \/ turn = 0 /\ (Pipelined => pending # << >> /\ Head(pending) = t)

\* the reply that has come is not the last one of the awaited storage call
Waits(t) == Pipelined /\ turn = 0 /\ wait[t] > 0

\* the task sends the next command of the awaited storage call
Reply(t) ==
    /\ wait' = [wait EXCEPT ![t] = @ - 1]
    /\ pending' = Append(Without(pending, t), t)
    /\ UNCHANGED <<now, ticks, connected, redisUp, rules, redisStore,
                   memoryStore, indices, processingQueue, nextId, tasks, turn,
                   arrivals, quiet, lastEscApplied>>

AllIdle == \A u \in TaskIds : tasks[u] = Idle

\* operations come one at a time
Serial ==
    arrivals \in {"serial", "configured", "failover", "fleet", "conditions"}

\* operations arrive while the flag isConnected tells what the Redis server
\* does; where Redis comes and goes they arrive at any time
EnvSteady ==
    CASE arrivals = "failover" -> TRUE
      [] arrivals \in {"live", "configured", "fleet", "pipelined",
                        "conditions", "ageing"} -> connected /\ redisUp
      [] OTHER -> redisUp = connected

\* a request or a cron tick starts in the lowest free slot
FreeSlot(t) ==
    /\ turn = 0
    /\ tasks[t] = Idle
    /\ \A u \in TaskIds : u < t => tasks[u] # Idle
    /\ Serial => AllIdle
    /\ EnvSteady

\* the alert ids the model hands out
IdLimit == IF Serial THEN MaxAlerts ELSE MaxRaceAlerts

Start ==
    /\ now = 0
    /\ ticks = 0
    /\ connected \in BOOLEAN
    /\ redisUp = connected
    /\ redisStore = [i \in AlertIds |-> NoAlert]
    /\ memoryStore = [i \in AlertIds |-> NoAlert]
    /\ alertsByDriver = [d \in Drivers |-> << >>]
    /\ alertsByVehicle = [v \in Vehicles |-> << >>]
    /\ driverZset = [d \in Drivers |-> [i \in AlertIds |-> Null]]
    /\ vehicleZset = [v \in Vehicles |-> [i \in AlertIds |-> Null]]
    /\ saved = {}
    /\ pending = << >>
    /\ wait = [t \in TaskIds |-> 0]
    /\ processingQueue = {}
    /\ nextId = 1
    /\ tasks = [t \in TaskIds |-> Idle]
    /\ turn = 0
    /\ quiet = 0
    /\ lastEscApplied = [i \in AlertIds |-> Null]

\* operations interleave freely, over MaxRaceAlerts alerts
Init == Start /\ arrivals = "overlapping" /\ rules = getDefaultRules

\* operations interleave freely over Redis, with the requests of LiveInputs
InitLive ==
    Start /\ arrivals = "live" /\ connected /\ rules = getDefaultRules

\* one operation at a time, over MaxAlerts alerts
InitSerial == Start /\ arrivals = "serial" /\ rules = getDefaultRules

\* one operation at a time over Redis, with the requests of CloseInputs and
\* the rules the service may start from: the default rules, or a compliance
\* rule without auto_close_if
InitClose ==
    /\ Start
    /\ arrivals = "conditions"
    /\ connected
    /\ rules \in {getDefaultRules, NoCloseRules}

\* operations interleave over Redis as the order of its replies lets them,
\* with the requests of PipeInputs
InitPipe ==
    Start /\ arrivals = "pipelined" /\ connected /\ rules = getDefaultRules

\* operations interleave freely over Redis, with the requests of AgeInputs
\* and MaxAgeTicks time steps
InitAge == Start /\ arrivals = "ageing" /\ connected /\ rules = getDefaultRules

\* one operation at a time, Redis coming and going between them, with the
\* requests of StoreInputs
InitStore == Start /\ arrivals = "failover" /\ rules = getDefaultRules

\* one operation at a time over Redis, with the requests of FleetInputs
InitFleet ==
    Start /\ arrivals = "fleet" /\ connected /\ rules = getDefaultRules

\* one operation at a time over Redis, with the rules the service may start
\* from and the requests of ConfInputs
InitConf ==
    /\ Start
    /\ arrivals = "configured"
    /\ connected
    /\ rules \in {getDefaultRules, NullRules}

-----------------------------------------------------------------------------
(* Operations (services/AlertService.js, routes/api/alerts.js) *)

Task(kind, pc, alert, list, arg) ==
    [kind |-> kind, pc |-> pc, alert |-> alert, list |-> list,
     arg |-> arg, expiryTime |-> 0, skipped |-> FALSE, threw |-> FALSE]

\* where processAlert returns to: the sweep's loop, or the end of the handler
Ret(kind) == IF kind \in {"cron", "manual"} THEN "loop" ELSE "done"

\* the sweeps run back to back are followed where operations come one at a
\* time
Quiet(v) == IF arrivals = "serial" THEN v ELSE 0

\* the model takes no request that would grow a history past MaxHistory
HistoryRoom(alert) ==
    IF alert = NoAlert THEN TRUE
    ELSE Len(alert.history) <
             (IF arrivals \in {"live", "failover", "conditions"}
              THEN MaxLiveHistory
              ELSE MaxHistory)

\* the in-process index of the alert's driver has room for a renew request
IndexRoom(alert) ==
    IF alert = NoAlert THEN TRUE
    ELSE IF alert.metadata.driverId = Undef THEN TRUE
    ELSE Len(alertsByDriver[alert.metadata.driverId]) < MaxIndex

\* POST /alerts -> createAlert: construct, save, then processAlert
createAlert(t, data) ==
    /\ FreeSlot(t)
    /\ nextId <= IdLimit
    /\ data \in Inputs
    /\ LET alert == Alert(nextId, data.sourceType, data.severity,
                          data.metadata, now)
       IN  /\ saveAlert(alert)
           /\ tasks' = [tasks EXCEPT
                          ![t] = Task("create", "proc", alert, << >>, Undef)]
    /\ nextId' = nextId + 1
    /\ Suspend(t, saveTrips(data))
    /\ quiet' = 0
    /\ UNCHANGED <<now, ticks, connected, redisUp, rules, processingQueue,
                   arrivals, lastEscApplied>>

\* processAlert without the in-flight guard
processAlertStartUnguarded(t) ==
    /\ CanRun(t)
    /\ tasks[t].pc = "proc"
    /\ processingQueue' = processingQueue \cup {tasks[t].alert.alertId}
    /\ tasks' = [tasks EXCEPT ![t].pc = "eval", ![t].skipped = FALSE]
    /\ Suspend(t, allTrips)
    /\ UNCHANGED <<now, ticks, connected, redisUp, rules, redisStore,
                   memoryStore, indices, nextId, arrivals, quiet,
                   lastEscApplied>>

\* processAlert up to its first await: the in-flight guard (skipped records
\* that the call returned at the guard), then the awaited getAllAlerts,
\* whose snapshot is taken when it resumes
processAlertStart(t) ==
    /\ CanRun(t)
    /\ tasks[t].pc = "proc"
    /\ IF Waits(t)
       THEN Reply(t)
       ELSE
            /\ IF tasks[t].alert.alertId \in processingQueue
               THEN /\ tasks' = [tasks EXCEPT ![t].pc = Ret(tasks[t].kind),
                                              ![t].skipped = TRUE]
                    /\ Proceed(t)
                    /\ UNCHANGED processingQueue
               ELSE /\ processingQueue' = processingQueue \cup {tasks[t].alert.alertId}
                    /\ tasks' = [tasks EXCEPT ![t].pc = "eval",
                                              ![t].skipped = FALSE]
                    /\ Suspend(t, allTrips)
            /\ UNCHANGED <<now, ticks, connected, redisUp, rules, redisStore,
                           memoryStore, indices, nextId, arrivals, quiet,
                           lastEscApplied>>

\* processAlert without its catch block: the exception leaves processAlert
\* through the finally block and ends the loop of a sweep in the catch block
\* of processAllAlerts
processAlertRethrow(t) ==
    /\ processingQueue' = processingQueue \ {tasks[t].alert.alertId}
    /\ tasks' = [tasks EXCEPT
                   ![t].pc = Ret(tasks[t].kind),
                   ![t].list = << >>,
                   ![t].threw = TRUE]
    /\ Proceed(t)
    /\ UNCHANGED <<redisStore, memoryStore, indices, lastEscApplied>>

\* processAlert whose catch block closes the alert that failed and saves it
processAlertCatchCloses(t) ==
    /\ processingQueue' = processingQueue \ {tasks[t].alert.alertId}
    /\ saveAlert(autoClose(tasks[t].alert, "Processing failed", now))
    /\ tasks' = [tasks EXCEPT
                   ![t].alert = autoClose(tasks[t].alert, "Processing failed",
                                          now),
                   ![t].pc = Ret(tasks[t].kind),
                   ![t].threw = TRUE]
    /\ Proceed(t)
    /\ UNCHANGED lastEscApplied

\* processAlert when the evaluation throws: the catch block logs, the
\* finally block releases the id, and processAlert returns (threw records it)
processAlertCatch(t) ==
    /\ processingQueue' = processingQueue \ {tasks[t].alert.alertId}
    /\ tasks' = [tasks EXCEPT ![t].pc = Ret(tasks[t].kind),
                              ![t].threw = TRUE]
    /\ Proceed(t)
    /\ UNCHANGED <<redisStore, memoryStore, indices, lastEscApplied>>

\* processAlert after getAllAlerts: evaluateAlert, executeAction, saveAlert;
\* with no action the finally block releases the id at once, and so it does
\* after the catch block when the evaluation throws (threw records it)
processAlertEvaluate(t) ==
    /\ CanRun(t)
    /\ tasks[t].pc = "eval"
    /\ IF Waits(t)
       THEN Reply(t)
       ELSE
            /\ LET alert == tasks[t].alert
                   action == evaluateAlert(alert, getAllAlerts, rules, now)
                   after == executeAction(alert, action, now)
               IN  IF action = Thrown
                   THEN processAlertCatch(t)
                   ELSE IF action # NoAction
                   THEN /\ saveAlert(after)
                        /\ tasks' = [tasks EXCEPT ![t].alert = after,
                                                  ![t].pc = "saved"]
                        /\ lastEscApplied' =
                             IF action.type = "escalate"
                             THEN [lastEscApplied EXCEPT ![alert.alertId] = now]
                             ELSE lastEscApplied
                        /\ Suspend(t, saveTrips(after))
                        /\ UNCHANGED processingQueue
                   ELSE /\ processingQueue' = processingQueue \ {alert.alertId}
                        /\ tasks' = [tasks EXCEPT ![t].pc = Ret(tasks[t].kind)]
                        /\ Proceed(t)
                        /\ UNCHANGED <<redisStore, memoryStore, indices,
                                       lastEscApplied>>
            /\ UNCHANGED <<now, ticks, connected, redisUp, rules, nextId, arrivals,
                           quiet>>

\* processAlert whose finally block keeps the id
processAlertFinallyKeeps(t) ==
    /\ CanRun(t)
    /\ tasks[t].pc = "saved"
    /\ tasks' = [tasks EXCEPT ![t].pc = Ret(tasks[t].kind)]
    /\ Proceed(t)
    /\ UNCHANGED <<now, ticks, connected, redisUp, rules, redisStore,
                   memoryStore, indices, processingQueue, nextId, arrivals,
                   quiet, lastEscApplied>>

\* processAlert after saveAlert: the finally block
processAlertFinally(t) ==
    /\ CanRun(t)
    /\ tasks[t].pc = "saved"
    /\ IF Waits(t)
       THEN Reply(t)
       ELSE
            /\ processingQueue' = processingQueue \ {tasks[t].alert.alertId}
            /\ tasks' = [tasks EXCEPT ![t].pc = Ret(tasks[t].kind)]
            /\ Proceed(t)
            /\ UNCHANGED <<now, ticks, connected, redisUp, rules, redisStore,
                           memoryStore, indices, nextId, arrivals, quiet,
                           lastEscApplied>>

\* PATCH /alerts/:alertId/resolve -> resolveAlert, up to the awaited getAlert
resolveAlert(t, id, resolution) ==
    /\ FreeSlot(t)
    /\ HistoryRoom(getAlert(id))
    /\ tasks' = [tasks EXCEPT
                   ![t] = Task("resolve", "got", getAlert(id), << >>,
                               resolution)]
    /\ Suspend(t, 1)
    /\ quiet' = 0
    /\ UNCHANGED <<now, ticks, connected, redisUp, rules, redisStore,
                   memoryStore, indices, processingQueue, nextId, arrivals,
                   lastEscApplied>>

\* resolveAlert that leaves an alert alone while an evaluation of it is in
\* flight
resolveAlertGotGuarded(t) ==
    /\ CanRun(t)
    /\ tasks[t].kind = "resolve"
    /\ tasks[t].pc = "got"
    /\ IF tasks[t].alert = NoAlert
          \/ tasks[t].alert.alertId \in processingQueue
       THEN /\ tasks' = [tasks EXCEPT ![t].pc = "done"]
            /\ Proceed(t)
            /\ UNCHANGED <<redisStore, memoryStore, indices>>
       ELSE LET after == resolve(tasks[t].alert, tasks[t].arg, now)
            IN  /\ saveAlert(after)
                /\ tasks' = [tasks EXCEPT ![t].alert = after, ![t].pc = "done"]
                /\ Suspend(t, saveTrips(after))
    /\ UNCHANGED <<now, ticks, connected, redisUp, rules, processingQueue,
                   nextId, arrivals, quiet, lastEscApplied>>

\* resolveAlert after getAlert: null for an unknown id, else resolve and save
resolveAlertGot(t) ==
    /\ CanRun(t)
    /\ tasks[t].kind = "resolve"
    /\ tasks[t].pc = "got"
    /\ IF Waits(t)
       THEN Reply(t)
       ELSE
            /\ IF tasks[t].alert = NoAlert
               THEN /\ tasks' = [tasks EXCEPT ![t].pc = "done"]
                    /\ Proceed(t)
                    /\ UNCHANGED <<redisStore, memoryStore, indices>>
               ELSE LET after == resolve(tasks[t].alert, tasks[t].arg, now)
                    IN  /\ saveAlert(after)
                        /\ tasks' = [tasks EXCEPT ![t].alert = after, ![t].pc = "done"]
                        /\ Suspend(t, saveTrips(after))
            /\ UNCHANGED <<now, ticks, connected, redisUp, rules, processingQueue,
                           nextId, arrivals, quiet, lastEscApplied>>

\* PATCH /alerts/:alertId/renew, up to the awaited getAlertById
renewAlert(t, id) ==
    /\ FreeSlot(t)
    /\ HistoryRoom(getAlert(id))
    /\ IndexRoom(getAlert(id))
    /\ tasks' = [tasks EXCEPT
                   ![t] = Task("renew", "got", getAlert(id), << >>, Undef)]
    /\ Suspend(t, 1)
    /\ quiet' = 0
    /\ UNCHANGED <<now, ticks, connected, redisUp, rules, redisStore,
                   memoryStore, indices, processingQueue, nextId, arrivals,
                   lastEscApplied>>

\* the renew route after getAlertById: 404, or set document_valid, save and
\* go on to processAlert
renewAlertGot(t) ==
    /\ CanRun(t)
    /\ tasks[t].kind = "renew"
    /\ tasks[t].pc = "got"
    /\ IF Waits(t)
       THEN Reply(t)
       ELSE
            /\ IF tasks[t].alert = NoAlert
               THEN /\ tasks' = [tasks EXCEPT ![t].pc = "done"]
                    /\ Proceed(t)
                    /\ UNCHANGED <<redisStore, memoryStore, indices>>
               ELSE LET after == [tasks[t].alert EXCEPT
                                    !.metadata = [@ EXCEPT !.document_valid = BoolTrue]]
                    IN  /\ saveAlert(after)
                        /\ tasks' = [tasks EXCEPT ![t].alert = after, ![t].pc = "proc"]
                        /\ Suspend(t, saveTrips(after))
            /\ UNCHANGED <<now, ticks, connected, redisUp, rules, processingQueue,
                           nextId, arrivals, quiet, lastEscApplied>>

\* the cron callback: processAllAlerts up to the awaited getAllAlerts (the
\* active alerts of the snapshot are kept), expireOldAlerts follows
cronSweep(t) ==
    /\ FreeSlot(t)
    /\ tasks' = [tasks EXCEPT
                   ![t] = Task("cron", "loop", NoAlert,
                               SelectSeq(getAllAlerts, isActive), Undef)]
    /\ Suspend(t, allTrips)
    /\ quiet' = Quiet(IF AllIdle THEN (IF quiet = 2 THEN 2 ELSE 1) ELSE 0)
    /\ UNCHANGED <<now, ticks, connected, redisUp, rules, redisStore,
                   memoryStore, indices, processingQueue, nextId, arrivals,
                   lastEscApplied>>

\* POST /alerts/process -> processAllAlerts alone
processAllAlerts(t) ==
    /\ FreeSlot(t)
    /\ tasks' = [tasks EXCEPT
                   ![t] = Task("manual", "loop", NoAlert,
                               SelectSeq(getAllAlerts, isActive), Undef)]
    /\ Suspend(t, allTrips)
    /\ quiet' = 0
    /\ UNCHANGED <<now, ticks, connected, redisUp, rules, redisStore,
                   memoryStore, indices, processingQueue, nextId, arrivals,
                   lastEscApplied>>

\* the for loop of processAllAlerts: the next alert goes to processAlert;
\* at the end the cron callback calls expireOldAlerts, which computes the
\* expiry time and awaits getAllAlerts
processAllAlertsLoop(t) ==
    /\ CanRun(t)
    /\ tasks[t].pc = "loop"
    /\ IF Waits(t)
       THEN Reply(t)
       ELSE
            /\ IF tasks[t].list # << >>
               THEN /\ tasks' = [tasks EXCEPT ![t].alert = Head(tasks[t].list),
                                              ![t].list = Tail(tasks[t].list),
                                              ![t].pc = "proc"]
                    /\ Proceed(t)
               ELSE IF tasks[t].kind = "cron"
               THEN /\ tasks' = [tasks EXCEPT
                                   ![t].alert = NoAlert,
                                   ![t].list = getAllAlerts,
                                   ![t].expiryTime =
                                       now - ALERT_EXPIRY_DAYS * MinutesPerDay,
                                   ![t].pc = "expire"]
                    /\ Suspend(t, allTrips)
               ELSE /\ tasks' = [tasks EXCEPT ![t].alert = NoAlert, ![t].pc = "done"]
                    /\ Proceed(t)
            /\ UNCHANGED <<now, ticks, connected, redisUp, rules, redisStore,
                           memoryStore, indices, processingQueue, nextId, arrivals,
                           quiet, lastEscApplied>>

\* the for loop of expireOldAlerts
expireOldAlerts(t) ==
    /\ CanRun(t)
    /\ tasks[t].pc = "expire"
    /\ IF Waits(t)
       THEN Reply(t)
       ELSE
            /\ IF tasks[t].list = << >>
               THEN /\ tasks' = [tasks EXCEPT ![t].pc = "done"]
                    /\ Proceed(t)
                    /\ UNCHANGED <<redisStore, memoryStore, indices>>
               ELSE LET alert == Head(tasks[t].list)
                    IN  IF isActive(alert) /\ alert.timestamp < tasks[t].expiryTime
                        THEN /\ saveAlert(expire(alert, now))
                             /\ tasks' = [tasks EXCEPT ![t].list = Tail(tasks[t].list)]
                             /\ Suspend(t, saveTrips(expire(alert, now)))
                        ELSE /\ tasks' = [tasks EXCEPT ![t].list = Tail(tasks[t].list)]
                             /\ Proceed(t)
                             /\ UNCHANGED <<redisStore, memoryStore, indices>>
            /\ UNCHANGED <<now, ticks, connected, redisUp, rules, processingQueue,
                           nextId, arrivals, quiet, lastEscApplied>>

\* the handler returns (the response is sent), or the cron callback ends
finish(t) ==
    /\ CanRun(t)
    /\ tasks[t].pc = "done"
    /\ IF Waits(t)
       THEN Reply(t)
       ELSE
            /\ tasks' = [tasks EXCEPT ![t] = Idle]
            /\ Release(t)
            /\ quiet' = Quiet(IF tasks[t].kind = "cron" /\ quiet >= 1 THEN 2 ELSE quiet)
            /\ UNCHANGED <<now, ticks, connected, redisUp, rules, redisStore,
                           memoryStore, indices, processingQueue, nextId, arrivals,
                           lastEscApplied>>

\* the rules change between operations, and where the single commands are
\* followed while an evaluation awaits its snapshot; outside the scenarios
\* where the rules change, a source type is added after the last alert, the
\* last time step and the last request on an alert
RulesMayChange(partial) ==
    /\ IF Pipelined THEN \E t \in TaskIds : tasks[t].pc = "eval" ELSE AllIdle
    /\ arrivals \notin {"configured", "pipelined"}
           => /\ "unknown_type" \in DOMAIN partial
              /\ nextId > IdLimit
              /\ ticks = TickLimit
              /\ \A i \in 1 .. IdLimit : ~HistoryRoom(getAlert(i))

\* PUT /rules -> RuleEngine.updateRules (synchronous), once from the rules
\* the service started with
updateRules(partial) ==
    /\ turn = 0
    /\ rules \in {getDefaultRules, NullRules}
    /\ RulesMayChange(partial)
    /\ rules' = merge(rules, partial)
    /\ quiet' = 0
    /\ UNCHANGED <<now, ticks, connected, redisUp, redisStore, memoryStore,
                   indices, processingQueue, nextId, tasks, turn, pipeline, arrivals,
                   lastEscApplied>>

\* Redis comes and goes between operations; outside the scenario where it
\* does, before the first alert
EnvMayChange == AllIdle /\ turn = 0 /\ (arrivals # "failover" => nextId = 1)

\* the Redis server stops answering; isConnected is as it was until the
\* client reports it
redisDown ==
    /\ EnvMayChange
    /\ redisUp
    /\ redisUp' = FALSE
    /\ quiet' = 0
    /\ UNCHANGED <<now, ticks, connected, rules, redisStore, memoryStore,
                   indices, processingQueue, nextId, tasks, turn, pipeline, arrivals,
                   lastEscApplied>>

\* client.on('error'): isConnected = false
redisError ==
    /\ EnvMayChange
    /\ ~redisUp
    /\ connected
    /\ connected' = FALSE
    /\ quiet' = 0
    /\ UNCHANGED <<now, ticks, redisUp, rules, redisStore, memoryStore,
                   indices, processingQueue, nextId, tasks, turn, pipeline, arrivals,
                   lastEscApplied>>

\* the Redis server answers again and the client reconnects:
\* client.on('connect'): isConnected = true
redisConnect ==
    /\ EnvMayChange
    /\ ~redisUp
    /\ redisUp' = TRUE
    /\ connected' = TRUE
    /\ quiet' = 0
    /\ UNCHANGED <<now, ticks, rules, redisStore, memoryStore, indices,
                   processingQueue, nextId, tasks, turn, pipeline, arrivals,
                   lastEscApplied>>

\* AlertStorageManager.deleteAlert, between operations: RedisManager.del
\* when connected (null when the command fails), else Map.delete; the
\* indices are left as they are
deleteAlert(id) ==
    /\ EnvMayChange
    /\ IF connected
       THEN /\ redisStore' = IF redisUp
                             THEN [redisStore EXCEPT ![id] = NoAlert]
                             ELSE redisStore
            /\ UNCHANGED memoryStore
       ELSE /\ memoryStore' = [memoryStore EXCEPT ![id] = NoAlert]
            /\ UNCHANGED redisStore
    /\ saved' = saved \ {id}
    /\ quiet' = 0
    /\ UNCHANGED <<now, ticks, connected, redisUp, rules, alertsByDriver,
                   alertsByVehicle, driverZset, vehicleZset, processingQueue,
                   nextId, tasks, turn, pipeline, arrivals,
                   lastEscApplied>>

\* time passes
tick(d) ==
    /\ turn = 0
    /\ ticks < TickLimit
    /\ AllIdle
    /\ d \in JumpsNow
    /\ now' = now + d
    /\ ticks' = ticks + 1
    /\ quiet' = 0
    /\ UNCHANGED <<connected, redisUp, rules, redisStore, memoryStore,
                   indices, processingQueue, nextId, tasks, turn, pipeline, arrivals,
                   lastEscApplied>>

Next ==
    \/ \E t \in TaskIds,
          data \in CreateInputs \cup ConfInputs \cup StoreInputs
                       \cup FleetInputs \cup PipeInputs \cup CloseInputs :
           createAlert(t, data)
    \/ \E t \in TaskIds, id \in AlertIds, r \in Resolutions :
           resolveAlert(t, id, r)
    \/ \E t \in TaskIds, id \in AlertIds : renewAlert(t, id)
    \/ \E t \in TaskIds : cronSweep(t)
    \/ \E t \in TaskIds : processAllAlerts(t)
    \/ \E t \in TaskIds : processAlertStart(t)
    \/ \E t \in TaskIds : processAlertEvaluate(t)
    \/ \E t \in TaskIds : processAlertFinally(t)
    \/ \E t \in TaskIds : resolveAlertGot(t)
    \/ \E t \in TaskIds : renewAlertGot(t)
    \/ \E t \in TaskIds : processAllAlertsLoop(t)
    \/ \E t \in TaskIds : expireOldAlerts(t)
    \/ \E t \in TaskIds : finish(t)
    \/ \E d \in Jumps \cup ConfJumps \cup FleetJumps : tick(d)
    \/ \E partial \in RuleUpdates : updateRules(partial)
    \/ redisDown
    \/ redisError
    \/ redisConnect
    \/ \E id \in AlertIds : deleteAlert(id)

Spec == Init /\ [][Next]_vars

SpecSeq == InitSerial /\ [][Next]_vars

SpecConf == InitConf /\ [][Next]_vars

SpecStore == InitStore /\ [][Next]_vars

SpecFleet == InitFleet /\ [][Next]_vars

SpecPipe == InitPipe /\ [][Next]_vars

SpecClose == InitClose /\ [][Next]_vars

SpecAge == InitAge /\ [][Next]_vars

\* the steps by which a started operation goes on
Continue(t) ==
    \/ processAlertStart(t)
    \/ processAlertEvaluate(t)
    \/ processAlertFinally(t)
    \/ resolveAlertGot(t)
    \/ renewAlertGot(t)
    \/ processAllAlertsLoop(t)
    \/ expireOldAlerts(t)
    \/ finish(t)

\* the event loop runs every continuation that is ready again and again:
\* a started operation is not starved by the operations that arrive later
SpecLive == InitLive /\ [][Next]_vars /\ \A t \in TaskIds : SF_vars(Continue(t))

-----------------------------------------------------------------------------
(* Properties *)

\* the record getAlert would read for this id
stored(i) == IF connected THEN redisStore[i] ELSE memoryStore[i]

exists(i) == stored(i) # NoAlert

\* task t is between the in-flight guard and the finally block of processAlert
InFlight(t) == tasks[t].pc \in {"eval", "saved"}

\* task t takes this step
Moves(t) == tasks'[t] # tasks[t]

\* C1: once the stored status of an alert is RESOLVED, no later step changes
\* its stored status
C1_ResolvedIsFinal ==
    [][\A i \in AlertIds :
          (exists(i) /\ stored(i).status = "RESOLVED")
              => stored(i)'.status = "RESOLVED"]_vars

\* C2: at most one processAlert evaluation is in flight per alert id, and a
\* processAlert call for an id in the processing set returns at once: it
\* leaves storage, the processing set and the alert as they are and goes
\* back to its caller
C2_OneEvaluationPerId ==
    /\ [](\A t, u \in TaskIds :
             (t # u /\ InFlight(t) /\ InFlight(u))
                 => tasks[t].alert.alertId # tasks[u].alert.alertId)
    /\ [][\A t \in TaskIds :
             (/\ tasks[t].pc = "proc"
              /\ tasks[t].alert.alertId \in processingQueue
              /\ Moves(t))
                 => /\ redisStore' = redisStore
                    /\ memoryStore' = memoryStore
                    /\ processingQueue' = processingQueue
                    /\ tasks'[t].alert = tasks[t].alert
                    /\ tasks'[t].pc = Ret(tasks[t].kind)]_vars

\* C2 witness: a processAlert call has returned at the guard while another
\* task's evaluation of the same id is in flight
C2_Witness ==
    \E t, u \in TaskIds :
        /\ t # u
        /\ tasks[t].skipped
        /\ InFlight(u)
        /\ tasks[u].alert.alertId = tasks[t].alert.alertId

ruleOf(alert) ==
    IF rules = NullRules THEN NoRule ELSE rules[alert.sourceType]

\* the count-in-window condition of the alert's rule holds over the stored
\* alerts
CountMet(alert) ==
    /\ ruleOf(alert) # NoRule
    /\ ruleOf(alert).escalate_if_count # 0
    /\ ruleOf(alert).window_mins # 0
    /\ Cardinality(recentAlerts(alert, ruleOf(alert), getAllAlerts, now))
           >= ruleOf(alert).escalate_if_count

\* createAlert has returned to its caller in task t
Created(t) == tasks[t].kind = "create" /\ tasks[t].pc = "done"

\* the record was escalated by the evaluation of its createAlert
EscalatedAtCreation(r) ==
    /\ Len(r.history) >= 2
    /\ r.history[2].action = "ESCALATED"
    /\ r.history[2].timestamp = r.timestamp

\* C4: the alert that brings the count of its sourceType and driver to the
\* rule's escalate_if_count is returned by createAlert as ESCALATED with the
\* rule's escalate_to_severity, and once escalated by that evaluation no
\* later evaluation adds another escalation to it
C4_EscalatedExactlyOnce ==
    /\ [](\A t \in TaskIds :
             (Created(t) /\ CountMet(tasks[t].alert))
                 => /\ tasks[t].alert.status = "ESCALATED"
                    /\ tasks[t].alert.severity =
                           ruleOf(tasks[t].alert).escalate_to_severity)
    /\ [][\A i \in AlertIds :
             (exists(i) /\ EscalatedAtCreation(stored(i)))
                 => stored(i)'.escalationCount = stored(i).escalationCount]_vars

\* record r is an earlier alert of the same sourceType and driver as alert,
\* escalated within the cooldown
EscalatedInCooldown(r, alert) ==
    /\ r # NoAlert
    /\ r.alertId < alert.alertId
    /\ r.sourceType = alert.sourceType
    /\ r.metadata.driverId = alert.metadata.driverId
    /\ r.lastEscalatedAt # Null
    /\ now - r.lastEscalatedAt <= ESCALATION_COOLDOWN_MINUTES

\* C5: an alert created for a driver within the cooldown of the escalation
\* of an earlier alert of the same sourceType and driver is returned by
\* createAlert OPEN with the severity it was created with
C5_NextAlertNotEscalated ==
    \A t \in TaskIds :
        (/\ Created(t)
         /\ \E i \in AlertIds : EscalatedInCooldown(stored(i), tasks[t].alert))
            => /\ tasks[t].alert.status = "OPEN"
               /\ tasks[t].alert.severity = "MEDIUM"

\* C6: a reconciliation sweep that follows a complete reconciliation sweep,
\* with no other operation and no time step in between, changes no stored
\* record (no status, no history)
C6_SecondSweepChangesNothing ==
    [][(quiet = 2 /\ quiet' = 2)
          => (redisStore' = redisStore /\ memoryStore' = memoryStore)]_vars

\* C7: every change of a stored status leaves OPEN or ESCALATED, and none
\* leads back to OPEN
C7_LifecycleEdges ==
    [][\A i \in AlertIds :
          (exists(i) /\ stored(i)'.status # stored(i).status)
              => /\ stored(i).status \in {"OPEN", "ESCALATED"}
                 /\ stored(i)'.status # "OPEN"]_vars

\* the metadata of the alert holds the boolean true under the auto-close
\* key of its rule
CloseFlagSet(alert) ==
    /\ ruleOf(alert) # NoRule
    /\ ruleOf(alert).auto_close_if # ""
    /\ metaValue(alert.metadata, ruleOf(alert).auto_close_if) = BoolTrue

\* what the escalation rules give for the alert over the stored alerts
EscalationNow(alert) ==
    IF ruleOf(alert) = NoRule THEN NoAction
    ELSE checkEscalationRules(alert, ruleOf(alert), getAllAlerts, now)

\* what the auto-close rule gives for the alert
CloseNow(alert) ==
    IF ruleOf(alert) = NoRule THEN NoAction
    ELSE checkAutoCloseRules(alert, ruleOf(alert))

\* task t runs the evaluation of processAlert in this step
Evaluates(t) == tasks[t].pc = "eval" /\ Moves(t)

LastEvent(alert) == alert.history[Len(alert.history)]

C10_EscalationsCooldownApart ==
    [][\A t \in TaskIds :
          Evaluates(t)
              => /\ tasks'[t].alert.escalationCount
                        > tasks[t].alert.escalationCount
                     => \/ lastEscApplied[tasks[t].alert.alertId] = Null
                        \/ now - lastEscApplied[tasks[t].alert.alertId]
                               > ESCALATION_COOLDOWN_MINUTES
                 /\ ~canEscalate(tasks[t].alert, now)
                     => tasks'[t].alert.escalationCount
                            = tasks[t].alert.escalationCount]_vars

\* task t is a re-evaluation sweep (the cron callback or POST /alerts/process)
Sweeping(t) == tasks[t].kind \in {"cron", "manual"}

\* the rule of the alert has an age threshold and the alert has reached it
AgedOut(alert) ==
    /\ ruleOf(alert) # NoRule
    /\ ruleOf(alert).escalate_if_days # 0
    /\ now - alert.timestamp
           >= ruleOf(alert).escalate_if_days * MinutesPerDay

\* task t has passed every alert of its snapshot to processAlert
SweepDone(t) ==
    \/ tasks[t].kind = "manual" /\ tasks[t].pc = "done"
    \/ tasks[t].kind = "cron" /\ tasks[t].pc \in {"expire", "done"}

\* C11: the evaluation of a sweep escalates an OPEN alert that has reached
\* the age threshold of its rule to the rule's escalate_to_severity, in the
\* task and in storage, and when the sweep has gone through its snapshot no
\* stored alert is OPEN at or over the age threshold of its rule
C11_AgedAlertEscalated ==
    /\ [][\A t \in TaskIds :
             (/\ Sweeping(t)
              /\ Evaluates(t)
              /\ tasks[t].alert.status = "OPEN"
              /\ AgedOut(tasks[t].alert))
                 => /\ tasks'[t].alert.status = "ESCALATED"
                    /\ tasks'[t].alert.severity =
                           ruleOf(tasks[t].alert).escalate_to_severity
                    /\ stored(tasks[t].alert.alertId)' =
                           toJSON(tasks'[t].alert)]_vars
    /\ [](\A t \in TaskIds :
             SweepDone(t)
                 => \A i \in AlertIds :
                        ~(/\ exists(i)
                          /\ stored(i).status = "OPEN"
                          /\ AgedOut(stored(i))))

\* C11 witness: a sweep has escalated the only stored alert, which is as old
\* as the age threshold of its rule to the minute
C11_Witness ==
    \E t \in TaskIds :
        /\ Sweeping(t)
        /\ tasks[t].pc = "saved"
        /\ tasks[t].alert.status = "ESCALATED"
        /\ LastEvent(tasks[t].alert).details = "Alert aged"
        /\ now - tasks[t].alert.timestamp =
               ruleOf(tasks[t].alert).escalate_if_days * MinutesPerDay
        /\ \A i \in AlertIds \ {tasks[t].alert.alertId} : ~exists(i)

\* the record is older than the retention time
PastRetention(r) == r.timestamp < now - ALERT_EXPIRY_DAYS * MinutesPerDay

\* C12: a step of expireOldAlerts changes a stored record only if that
\* record is active and older than the retention time, and when
\* expireOldAlerts ends no stored alert is active and older than the
\* retention time
C12_ExpiresActiveOldOnly ==
    /\ [][\A t \in TaskIds :
             (tasks[t].pc = "expire" /\ Moves(t))
                 => \A i \in AlertIds :
                        (exists(i) /\ stored(i)' # stored(i))
                            => /\ isActive(stored(i))
                               /\ PastRetention(stored(i))]_vars
    /\ [][\A t \in TaskIds :
             (tasks[t].pc = "expire" /\ tasks'[t].pc = "done")
                 => \A i \in AlertIds :
                        ~(/\ exists(i)
                          /\ isActive(stored(i))
                          /\ PastRetention(stored(i)))]_vars

-----------------------------------------------------------------------------
(* Aggregations (AlertService.getStats, AlertService.getDashboardData) *)

SEVERITY_LEVELS == {"CRITICAL", "HIGH", "MEDIUM", "LOW"}

\* process.env.TOP_DRIVERS_LIMIT || 5
TOP_DRIVERS_LIMIT == 5

\* alerts.filter(alert => alert.isActive())
activeAlerts(alerts) == SelectSeq(alerts, isActive)

\* getStats: activeCount
activeCount(alerts) == Len(activeAlerts(alerts))

\* getStats: bySeverity, over all the alerts
bySeverity(alerts) ==
    [sev \in SEVERITY_LEVELS |->
        Len(SelectSeq(alerts, LAMBDA a : a.severity = sev))]

\* getDashboardData: severityDistribution
severityDistribution(alerts) ==
    [sev \in SEVERITY_LEVELS |->
        Len(SelectSeq(activeAlerts(alerts), LAMBDA a : a.severity = sev))]

\* getDashboardData: driverAlertCounts, as the drivers in the order their
\* keys are inserted and the count of each
driverKeys(alerts) ==
    LET RECURSIVE keys(_, _)
        keys(n, acc) ==
            IF n > Len(alerts) THEN acc
            ELSE IF \/ ~isActive(alerts[n])
                    \/ alerts[n].metadata.driverId = Undef
                    \/ \E k \in 1 .. Len(acc) :
                           acc[k] = alerts[n].metadata.driverId
                 THEN keys(n + 1, acc)
                 ELSE keys(n + 1, Append(acc, alerts[n].metadata.driverId))
    IN  keys(1, << >>)

driverAlertCounts(alerts, driverId) ==
    Len(SelectSeq(activeAlerts(alerts),
                  LAMBDA a : a.metadata.driverId = driverId))

\* getDashboardData: topDrivers, the entries sorted by count (the sort is
\* stable) and cut at the limit
topDrivers(alerts) ==
    LET keys == driverKeys(alerts)
        entries == [k \in 1 .. Len(keys) |->
                       [driverId |-> keys[k],
                        alertCount |-> driverAlertCounts(alerts, keys[k])]]
        RECURSIVE sorted(_)
        sorted(rest) ==
            IF rest = << >> THEN << >>
            ELSE LET best == CHOOSE k \in 1 .. Len(rest) :
                                 /\ \A j \in 1 .. Len(rest) :
                                        rest[j].alertCount <= rest[k].alertCount
                                 /\ \A j \in 1 .. k - 1 :
                                        rest[j].alertCount < rest[k].alertCount
                 IN  <<rest[best]>> \o
                     sorted(SubSeq(rest, 1, best - 1)
                                \o SubSeq(rest, best + 1, Len(rest)))
        all == sorted(entries)
    IN  SubSeq(all, 1, IF Len(all) < TOP_DRIVERS_LIMIT THEN Len(all)
                       ELSE TOP_DRIVERS_LIMIT)

\* getDashboardData: summary.totalActive
totalActive(alerts) == Len(activeAlerts(alerts))

\* getDashboardData: summary.escalationRate, Math.round of the percentage
escalationRate(alerts) ==
    LET active == Len(activeAlerts(alerts))
        escalated == Len(SelectSeq(activeAlerts(alerts),
                                   LAMBDA a : a.status = "ESCALATED"))
    IN  IF active > 0 THEN (200 * escalated + active) \div (2 * active)
        ELSE 0

\* the stored alerts whose status is OPEN or ESCALATED
openOrEscalated ==
    SelectSeq(getAllAlerts, LAMBDA a : a.status \in {"OPEN", "ESCALATED"})

\* C13: every active-state aggregation over the stored alerts is what it is
\* over the stored alerts that are OPEN or ESCALATED alone, and counts each
\* of those
C13_AggregatesCountActiveOnly ==
    LET all == getAllAlerts
        live == openOrEscalated
        top == topDrivers(all)
    IN  /\ activeCount(all) = Len(live)
        /\ totalActive(all) = Len(live)
        /\ severityDistribution(all) = bySeverity(live)
        /\ top = topDrivers(live)
        /\ \A k \in 1 .. Len(top) :
               top[k].alertCount =
                   Len(SelectSeq(live, LAMBDA a : a.metadata.driverId =
                                                      top[k].driverId))
        /\ escalationRate(all) = escalationRate(live)
        /\ live = << >> => (top = << >> /\ escalationRate(all) = 0)

\* C13 witness: of two stored alerts one is EXPIRED or RESOLVED and the
\* other ESCALATED, and the aggregations count the second alone
C13_Witness ==
    /\ Len(getAllAlerts) = 2
    /\ \E k \in 1 .. 2 : getAllAlerts[k].status \in {"EXPIRED", "RESOLVED"}
    /\ \E k \in 1 .. 2 : getAllAlerts[k].status = "ESCALATED"
    /\ totalActive(getAllAlerts) = 1
    /\ escalationRate(getAllAlerts) = 100
    /\ Len(topDrivers(getAllAlerts)) = 1
    /\ topDrivers(getAllAlerts)[1].alertCount = 1

\* the rule a source type has, none when the rules are null
ruleFor(ruleSet, s) == IF ruleSet = NullRules THEN NoRule ELSE ruleSet[s]

\* C14: a change of the rules gives every source type named in the request
\* exactly the rule supplied and leaves every other source type the rule it
\* had; an alert of a source type is returned by createAlert escalated as
\* the rule added for that type says, and untouched while the type has no
\* rule
C14_ShallowMerge ==
    /\ [][rules' # rules
             => \E partial \in RuleUpdates :
                    \A s \in SourceTypes :
                        rules'[s] = IF s \in DOMAIN partial THEN partial[s]
                                    ELSE ruleFor(rules, s)]_vars
    /\ [](\A t \in TaskIds :
             (Created(t) /\ tasks[t].alert.sourceType = "unknown_type")
                 => IF ruleOf(tasks[t].alert) = NoRule
                    THEN /\ tasks[t].alert.status = "OPEN"
                         /\ Len(tasks[t].alert.history) = 1
                    ELSE /\ tasks[t].alert.status = "ESCALATED"
                         /\ tasks[t].alert.severity =
                                ruleOf(tasks[t].alert).escalate_to_severity)

\* C14 witness: after a rule for a new source type was added, createAlert
\* has returned an alert of that type escalated by the new rule, with the
\* rules of the other source types as they were
C14_Witness ==
    \E t \in TaskIds :
        /\ Created(t)
        /\ tasks[t].alert.sourceType = "unknown_type"
        /\ tasks[t].alert.status = "ESCALATED"
        /\ tasks[t].alert.severity = "HIGH"
        /\ getDefaultRules["unknown_type"] = NoRule
        /\ \A s \in SourceTypes \ {"unknown_type"} :
               ruleFor(rules, s) = getDefaultRules[s]

\* sequence p is a prefix of sequence q
IsPrefix(p, q) == Len(p) <= Len(q) /\ SubSeq(q, 1, Len(p)) = p

\* C15: the history stored for an alert id always has the history stored
\* before as a prefix
C15_HistoryAppendOnly ==
    [][\A i \in AlertIds :
          exists(i) => IsPrefix(stored(i).history, stored(i)'.history)]_vars

\* C16: the stored escalationCount of an alert never decreases, and an
\* evaluation that escalates an alert adds exactly 1 to its escalationCount
C16_EscalationCountMonotonic ==
    /\ [][\A i \in AlertIds :
             exists(i)
                 => stored(i)'.escalationCount >= stored(i).escalationCount]_vars
    /\ [][\A t \in TaskIds :
             (/\ Evaluates(t)
              /\ Len(tasks'[t].alert.history) > Len(tasks[t].alert.history)
              /\ LastEvent(tasks'[t].alert).action = "ESCALATED")
                 => tasks'[t].alert.escalationCount
                        = tasks[t].alert.escalationCount + 1]_vars

\* C17: once resolvedAt or expiredAt of a stored alert is set, it keeps its
\* value
C17_TimestampsSetOnce ==
    [][\A i \in AlertIds :
          exists(i)
              => /\ stored(i).resolvedAt # Null
                     => stored(i)'.resolvedAt = stored(i).resolvedAt
                 /\ stored(i).expiredAt # Null
                     => stored(i)'.expiredAt = stored(i).expiredAt]_vars

\* task t is iterating over the alerts of a sweep
InSweep(t) ==
    /\ Sweeping(t)
    /\ tasks[t].pc \in {"loop", "proc", "eval", "saved", "expire"}

\* C18: at no time are two sweeps iterating over alerts
C18_SweepsNeverOverlap ==
    \A t, u \in TaskIds : (InSweep(t) /\ InSweep(u)) => t = u

\* the evaluation that task t runs in this step throws
Fails(t) ==
    /\ Evaluates(t)
    /\ evaluateAlert(tasks[t].alert, getAllAlerts, rules, now) = Thrown

\* C19: when the processing of one alert of a sweep throws, the sweep goes
\* on with the alerts that are left; the loop of a sweep passes the next
\* alert of its snapshot to processAlert, and a sweep leaves its loop only
\* when none is left
C19_SweepSurvivesFailure ==
    /\ [][\A t \in TaskIds :
             (Sweeping(t) /\ Fails(t))
                 => /\ tasks'[t].pc = "loop"
                    /\ tasks'[t].list = tasks[t].list]_vars
    /\ [][\A t \in TaskIds :
             (tasks[t].pc = "loop" /\ Moves(t))
                 => IF tasks[t].list # << >>
                    THEN /\ tasks'[t].pc = "proc"
                         /\ tasks'[t].alert = Head(tasks[t].list)
                         /\ tasks'[t].list = Tail(tasks[t].list)
                    ELSE tasks'[t].pc \in {"expire", "done"}]_vars

\* C19 witness: a sweep over two active alerts has completed although the
\* processing of its alerts threw
C19_Witness ==
    \E t \in TaskIds :
        /\ tasks[t].kind = "manual"
        /\ tasks[t].pc = "done"
        /\ tasks[t].threw
        /\ tasks[t].list = << >>
        /\ \A i \in AlertIds : exists(i) /\ isActive(stored(i))

\* C20: when the processing of an alert throws, every stored record and
\* the alert itself are as they were before the processAlert call
C20_FailureChangesNothing ==
    [][\A t \in TaskIds :
          Fails(t)
              => /\ redisStore' = redisStore
                 /\ memoryStore' = memoryStore
                 /\ tasks'[t].alert = tasks[t].alert]_vars

\* C20 witness: createAlert has returned after the evaluation of its alert
\* threw, and the alert is stored as it was created
C20_Witness ==
    \E t \in TaskIds :
        /\ Created(t)
        /\ tasks[t].threw
        /\ stored(tasks[t].alert.alertId) = toJSON(tasks[t].alert)
        /\ tasks[t].alert.status = "OPEN"
        /\ Len(tasks[t].alert.history) = 1

-----------------------------------------------------------------------------
(* Storage: the primary store and its fallback *)

\* the limits of getAlertsByDriver that are asked for
Limits == {1, 2}

\* task t calls saveAlert in this step, on the alert it then holds
Saves(t) ==
    \/ tasks[t] = Idle /\ tasks'[t].kind = "create"
    \/ /\ tasks[t].kind \in {"resolve", "renew"}
       /\ tasks[t].pc = "got"
       /\ tasks[t].alert # NoAlert
       /\ Moves(t)

\* the alert getAlert gives from the fallback store
fallbackAlert(i) ==
    IF memoryStore[i] = NoAlert THEN NoAlert ELSE fromJSON(memoryStore[i])

\* C21: while the Redis server does not answer, a save puts the record into
\* the fallback store, get, getAll and getByDriver give what the fallback
\* store holds and a delete removes the record from it; and when the
\* connection is reported lost every alert of the fallback store is given
\* by get and getAll
C21_DegradesToFallback ==
    /\ [][\A t \in TaskIds :
             (Saves(t) /\ ~redisUp)
                 => memoryStore'[tasks'[t].alert.alertId]
                        = toJSON(tasks'[t].alert)]_vars
    /\ [](~redisUp
            => /\ \A i \in AlertIds : getAlert(i) = fallbackAlert(i)
               /\ getAllAlerts = storedAlerts(memoryStore)
               /\ \A d \in Drivers, n \in Limits :
                     getAlertsByDriver(d, n)
                         = found(memoryStore, slice(alertsByDriver[d], n)))
    /\ [][\A i \in AlertIds :
             (i \in saved /\ i \notin saved' /\ ~redisUp)
                 => memoryStore'[i] = NoAlert]_vars
    /\ [][(connected /\ ~connected')
             => \A i \in AlertIds :
                   memoryStore[i] # NoAlert
                       => /\ getAlert(i)' = fromJSON(memoryStore[i])
                          /\ \E k \in 1 .. Len(getAllAlerts') :
                                getAllAlerts'[k] = fromJSON(memoryStore[i])]_vars

\* the ids of the alerts getAllAlerts gives
allIds == {getAllAlerts[k].alertId : k \in 1 .. Len(getAllAlerts)}

\* C22: getAll gives every alert that was saved and not deleted, whichever
\* backend is selected and whichever was selected when the alert was saved
C22_GetAllGivesEverySaved == \A i \in saved : i \in allIds

-----------------------------------------------------------------------------
(* The count-in-window rule *)

\* the two alerts share a driver or a vehicle
Shares(a, b) ==
    \/ /\ a.metadata.driverId # Undef
       /\ a.metadata.driverId = b.metadata.driverId
    \/ /\ a.metadata.vehicleId # Undef
       /\ a.metadata.vehicleId = b.metadata.vehicleId

\* the alerts of the snapshot that match the subject alert
Matching(alert, allAlerts) ==
    {k \in 1 .. Len(allAlerts) :
        /\ allAlerts[k].sourceType = alert.sourceType
        /\ isActive(allAlerts[k])
        /\ allAlerts[k].timestamp >= now - ruleOf(alert).window_mins
        /\ Shares(allAlerts[k], alert)}

HasCountRule(alert) ==
    /\ ruleOf(alert) # NoRule
    /\ ruleOf(alert).escalate_if_count # 0
    /\ ruleOf(alert).window_mins # 0

\* C23: the count-in-window rule counts the alerts of the snapshot that have
\* the subject's source type, are active, lie inside the window ending now
\* and share the driver or the vehicle with the subject; the evaluation
\* escalates the alert to escalate_to_severity exactly when that count is at
\* least escalate_if_count and the cooldown gate passes
C23_CountsMatchingAlerts ==
    [][\A t \in TaskIds :
          (Evaluates(t) /\ HasCountRule(tasks[t].alert))
              => LET alert == tasks[t].alert
                     rule == ruleOf(alert)
                     n == Cardinality(Matching(alert, getAllAlerts))
                 IN  /\ recentAlerts(alert, rule, getAllAlerts, now)
                            = Matching(alert, getAllAlerts)
                     /\ (n >= rule.escalate_if_count /\ canEscalate(alert, now))
                            <=> /\ tasks'[t].alert.escalationCount
                                       = alert.escalationCount + 1
                                /\ tasks'[t].alert.severity
                                       = rule.escalate_to_severity
                                /\ tasks'[t].alert.status = "ESCALATED"]_vars

-----------------------------------------------------------------------------
(* createAlert and resolveAlert as their callers see them *)

\* createAlert returns to its caller in this step of task t
Returns(t) ==
    /\ tasks[t].kind = "create"
    /\ tasks[t].pc # "done"
    /\ tasks'[t].pc = "done"

\* the record and the alert agree on status, severity and escalationCount
SameOutcome(r, alert) ==
    /\ r # NoAlert
    /\ r.status = alert.status
    /\ r.severity = alert.severity
    /\ r.escalationCount = alert.escalationCount

\* the record, if there is one, shows no resolve or renew request
SweepsOnly(r, alert) ==
    r # NoAlert
        => /\ r.metadata = alert.metadata
           /\ \A k \in 1 .. Len(r.history) : r.history[k].action # "RESOLVED"

\* C24: when createAlert returns, the alert it returns is stored under its
\* id with the same status, severity and escalationCount, whatever a sweep
\* running beside it does
C24_ReturnsWhatIsStored ==
    [][\A t \in TaskIds :
          (/\ Returns(t)
           /\ \A u \in TaskIds \ {t} : tasks[u] = Idle \/ Sweeping(u)
           /\ SweepsOnly(stored(tasks[t].alert.alertId), tasks[t].alert))
              => SameOutcome(stored(tasks[t].alert.alertId)',
                             tasks'[t].alert)]_vars

\* createAlert has returned while a sweep that took the alert from its
\* snapshot is in processAlert with it
C24_Witness ==
    \E t, u \in TaskIds :
        /\ Created(t)
        /\ Sweeping(u)
        /\ tasks[u].pc \in {"proc", "eval", "saved"}
        /\ tasks[u].alert # NoAlert
        /\ tasks[u].alert.alertId = tasks[t].alert.alertId
        /\ SameOutcome(stored(tasks[t].alert.alertId), tasks[t].alert)

\* resolveAlert goes on after its getAlert in this step of task t
Resolves(t) ==
    /\ tasks[t].kind = "resolve"
    /\ tasks[t].pc = "got"
    /\ Moves(t)

\* the record is RESOLVED at this time with this resolution text
ResolvedWith(r, t, resolution) ==
    /\ r # NoAlert
    /\ r.status = "RESOLVED"
    /\ r.resolvedAt = t
    /\ r.resolution = resolution

\* C25: resolveAlert on an alert it found OPEN or ESCALATED stores it
\* RESOLVED with resolvedAt and the resolution text, whether or not an
\* evaluation of the id is in flight, and returns the resolved alert;
\* resolveAlert on an unknown id returns none and leaves the stores as they
\* are
C25_ResolveAlwaysSucceeds ==
    [][\A t \in TaskIds :
          Resolves(t) =>
              IF tasks[t].alert = NoAlert
              THEN /\ tasks'[t].alert = NoAlert
                   /\ tasks'[t].pc = "done"
                   /\ UNCHANGED <<redisStore, memoryStore>>
              ELSE isActive(tasks[t].alert)
                     => /\ ResolvedWith(stored(tasks[t].alert.alertId)', now,
                                        tasks[t].arg)
                        /\ tasks'[t].pc = "done"
                        /\ tasks'[t].alert.status = "RESOLVED"]_vars

\* resolveAlert has stored an alert RESOLVED while an evaluation of the id is
\* in flight in another operation
C25_Witness ==
    \E t, u \in TaskIds :
        /\ tasks[t].kind = "resolve"
        /\ tasks[t].pc = "done"
        /\ tasks[t].alert # NoAlert
        /\ InFlight(u)
        /\ tasks[u].alert.alertId = tasks[t].alert.alertId
        /\ tasks[u].alert.status \in {"OPEN", "ESCALATED"}
        /\ ResolvedWith(stored(tasks[t].alert.alertId),
                        tasks[t].alert.resolvedAt, tasks[t].arg)

-----------------------------------------------------------------------------
(* Rule updates *)

\* C26: the rule configuration changes only by the merge of a well-formed
\* update; a malformed update leaves it as it was
C26_MalformedUpdateRejected ==
    [][rules' # rules => \E partial \in Partials :
                             rules' = merge(rules, partial)]_vars

-----------------------------------------------------------------------------
(* The by-driver index *)

\* the place of the last save of id i in the array of a driver, 0 if none
lastPush(alertIds, i) ==
    LET places == {k \in 1 .. Len(alertIds) : alertIds[k] = i}
    IN  IF places = {} THEN 0
        ELSE CHOOSE k \in places : \A j \in places : j <= k

\* the ids of the array that have a record in the fallback store, each once,
\* the one saved last first
mostRecentFirst(alertIds) ==
    LET members == {i \in AlertIds : /\ lastPush(alertIds, i) > 0
                                     /\ memoryStore[i] # NoAlert}
        before(i) == {j \in members :
                         lastPush(alertIds, j) > lastPush(alertIds, i)}
    IN  [k \in 1 .. Cardinality(members) |->
            CHOOSE i \in members : Cardinality(before(i)) = k - 1]

\* the ids of a sequence of alerts
idsOf(alerts) == [k \in 1 .. Len(alerts) |-> alerts[k].alertId]

\* C27: getAlertsByDriver gives at most limit alerts, all of the driver, the
\* most recently saved first and none left out for one saved earlier: in the
\* fallback store by the order of the saves, in Redis (while it answers) by
\* the time of the save
C27_ByDriverMostRecentFirst ==
    \A d \in Drivers, limit \in Limits :
        LET r == getAlertsByDriver(d, limit)
            score(i) == driverZset[d][i]
            left == {i \in AlertIds : /\ score(i) # Null
                                      /\ redisStore[i] # NoAlert
                                      /\ \A k \in 1 .. Len(r) :
                                             r[k].alertId # i}
        IN  /\ Len(r) <= limit
            /\ \A k \in 1 .. Len(r) : r[k].metadata.driverId = d
            /\ IF connected
               THEN redisUp =>
                      /\ \A k \in 1 .. Len(r) - 1 :
                             score(r[k].alertId) >= score(r[k + 1].alertId)
                      /\ \A i \in left :
                             /\ Len(r) = limit
                             /\ score(i) <= score(r[Len(r)].alertId)
               ELSE idsOf(r) = slice(mostRecentFirst(alertsByDriver[d]), limit)

\* the configuration after an update of the configuration before it: the
\* rules of the request for the source types it names, the rules of before
\* for all others
After(before, partial) ==
    [s \in SourceTypes |-> IF s \in DOMAIN partial THEN partial[s]
                           ELSE before[s]]

\* the configurations an evaluation may see: the one the service started
\* with, and the one after an update
Configs == {getDefaultRules} \cup {After(getDefaultRules, partial) :
                                      partial \in RuleUpdates}

\* C28: the rules are at every moment the whole configuration of before an
\* update or the whole configuration of after it, and an evaluation that
\* was in flight when the rules changed acts as evaluateAlert does on one of
\* the two
C28_NoPartialMerge ==
    /\ [](rules \in Configs)
    /\ [][\A t \in TaskIds :
             Evaluates(t) =>
                 \E config \in Configs :
                     tasks'[t].alert =
                         executeAction(tasks[t].alert,
                                       evaluateAlert(tasks[t].alert,
                                                     getAllAlerts, config,
                                                     now),
                                       now)]_vars

\* createAlert has returned an alert that its own evaluation left OPEN under
\* the rules of after an update, which the rules of before would have closed:
\* the rules changed while the evaluation awaited its snapshot
C28_Witness ==
    \E t \in TaskIds :
        /\ Created(t)
        /\ ~tasks[t].skipped
        /\ rules # getDefaultRules
        /\ tasks[t].alert.status = "OPEN"
        /\ checkAutoCloseRules(tasks[t].alert,
                               getDefaultRules[tasks[t].alert.sourceType])
               # NoAction

-----------------------------------------------------------------------------
(* Severity *)

\* the place of a severity in LOW < MEDIUM < HIGH < CRITICAL
severityOrder(severity) ==
    CASE severity = "LOW" -> 1
      [] severity = "MEDIUM" -> 2
      [] severity = "HIGH" -> 3
      [] severity = "CRITICAL" -> 4

\* an escalation is applied to the alert of task t in this step
Escalates(t) ==
    /\ Evaluates(t)
    /\ tasks'[t].alert.escalationCount = tasks[t].alert.escalationCount + 1

\* C29: every escalation leaves the alert, and the record saved with it, at
\* a severity not lower than the alert had
C29_EscalationRaisesSeverity ==
    [][\A t \in TaskIds :
          Escalates(t) =>
              /\ severityOrder(tasks'[t].alert.severity)
                     >= severityOrder(tasks[t].alert.severity)
              /\ severityOrder(stored(tasks[t].alert.alertId)'.severity)
                     >= severityOrder(tasks[t].alert.severity)]_vars

-----------------------------------------------------------------------------
(* The auto-close condition *)

\* the rule names an auto-close key and the metadata hold the boolean true
\* or the string 'true' under it
ConditionTrue(alert, rule) ==
    /\ rule # NoRule
    /\ rule.auto_close_if # ""
    /\ metaValue(alert.metadata, rule.auto_close_if) \in {BoolTrue, StrTrue}

\* C30: the auto-close rule gives an action exactly for the boolean true and
\* the string 'true' under the key of the rule; an evaluation that the
\* escalation rule leaves to it closes the alert in that case and in every
\* other case leaves the alert and its record as they are
C30_ClosesOnTrueOnly ==
    /\ [](\A i \in AlertIds :
             (exists(i) /\ ruleOf(stored(i)) # NoRule)
                 => ((checkAutoCloseRules(stored(i), ruleOf(stored(i)))
                         # NoAction)
                        <=> ConditionTrue(stored(i), ruleOf(stored(i)))))
    /\ [][\A t \in TaskIds :
             (/\ Evaluates(t)
              /\ ruleOf(tasks[t].alert) # NoRule
              /\ checkEscalationRules(tasks[t].alert, ruleOf(tasks[t].alert),
                                      getAllAlerts, now) = NoAction)
                 => IF ConditionTrue(tasks[t].alert, ruleOf(tasks[t].alert))
                    THEN /\ tasks'[t].alert.status = "AUTO_CLOSED"
                         /\ stored(tasks[t].alert.alertId)'.status
                                = "AUTO_CLOSED"
                    ELSE /\ tasks'[t].alert = tasks[t].alert
                         /\ UNCHANGED <<redisStore, memoryStore>>]_vars

\* createAlert has returned an alert with the string 'true' under the key of
\* its rule AUTO_CLOSED, and an alert with another string under it is stored
\* OPEN
C30_Witness ==
    \E t \in TaskIds, i \in AlertIds :
        /\ Created(t)
        /\ ~tasks[t].skipped
        /\ tasks[t].alert.metadata.document_valid = StrTrue
        /\ tasks[t].alert.status = "AUTO_CLOSED"
        /\ exists(i)
        /\ stored(i).metadata.document_valid = StrYes
        /\ stored(i).status = "OPEN"
        /\ ruleOf(stored(i)) # NoRule
        /\ ruleOf(stored(i)).auto_close_if = "document_valid"

\* the alert before and after a transition is of one source type, id,
\* creation time and metadata
Kept(before, after) ==
    /\ after.sourceType = before.sourceType
    /\ after.alertId = before.alertId
    /\ after.timestamp = before.timestamp
    /\ after.metadata = before.metadata

\* the transition has left the escalation fields as they were as well
Untouched(before, after) ==
    /\ Kept(before, after)
    /\ after.severity = before.severity
    /\ after.escalationCount = before.escalationCount
    /\ after.lastEscalatedAt = before.lastEscalatedAt

\* the evaluation of task t applies a transition to its alert in this step
Transits(t) == Evaluates(t) /\ tasks'[t].alert # tasks[t].alert

\* task t applies resolve() to the alert it has read in this step
ResolvesNow(t) ==
    /\ tasks[t].kind = "resolve"
    /\ tasks[t].pc = "got"
    /\ tasks[t].alert # NoAlert
    /\ Moves(t)

\* task t applies expire() to the next alert of its snapshot in this step
ExpiresNow(t) ==
    /\ tasks[t].pc = "expire"
    /\ Moves(t)
    /\ tasks[t].list # << >>
    /\ isActive(Head(tasks[t].list))
    /\ Head(tasks[t].list).timestamp < tasks[t].expiryTime

\* the alert that the save of this step has put into the store under id i
SavedNow(i) == fromJSON(stored(i)')

\* C31: autoClose, resolve and expire leave the severity, escalationCount,
\* lastEscalatedAt, sourceType, id, creation timestamp and metadata of the
\* alert they are applied to as they were, and escalate leaves its
\* sourceType, id, creation timestamp and metadata as they were
C31_TransitionsKeepFields ==
    [][\A t \in TaskIds :
          /\ Transits(t)
                => /\ Kept(tasks[t].alert, tasks'[t].alert)
                   /\ LastEvent(tasks'[t].alert).action # "ESCALATED"
                         => /\ LastEvent(tasks'[t].alert).action = "AUTO_CLOSED"
                            /\ Untouched(tasks[t].alert, tasks'[t].alert)
          /\ ResolvesNow(t)
                => /\ LastEvent(tasks'[t].alert).action = "RESOLVED"
                   /\ Untouched(tasks[t].alert, tasks'[t].alert)
          /\ ExpiresNow(t)
                => \A i \in AlertIds :
                       i = Head(tasks[t].list).alertId
                           => /\ LastEvent(SavedNow(i)).action = "EXPIRED"
                              /\ Untouched(Head(tasks[t].list),
                                           SavedNow(i))]_vars

\* C31 witness: an alert that was escalated to CRITICAL has been resolved
\* and is returned and stored RESOLVED with the severity, escalationCount
\* and lastEscalatedAt of its escalation
C31_Witness ==
    \E t \in TaskIds :
        /\ tasks[t].kind = "resolve"
        /\ tasks[t].pc = "done"
        /\ tasks[t].alert # NoAlert
        /\ tasks[t].alert.status = "RESOLVED"
        /\ tasks[t].alert.severity = "CRITICAL"
        /\ tasks[t].alert.escalationCount = 1
        /\ tasks[t].alert.lastEscalatedAt # Null
        /\ stored(tasks[t].alert.alertId) = toJSON(tasks[t].alert)

\* the history after is the history before with one event more, which
\* records the status before as previousStatus
OneEventMore(before, after) ==
    /\ Len(after.history) = Len(before.history) + 1
    /\ SubSeq(after.history, 1, Len(before.history)) = before.history
    /\ LastEvent(after).previousStatus = before.status
    /\ LastEvent(after).action = after.status
    /\ LastEvent(after).action = "ESCALATED"
           => LastEvent(after).previousSeverity = before.severity

\* what evaluateAlert gives for the alert of task t in this state
ActionNow(t) == evaluateAlert(tasks[t].alert, getAllAlerts, rules, now)

\* C32: every applied transition (escalate, autoClose, resolve, expire)
\* appends exactly one history event, whose previousStatus is the status the
\* alert had before the transition and, for escalate, whose previousSeverity
\* is the severity it had before; an evaluation that gives no action appends
\* no event to the alert and writes no record
C32_OneEventPerTransition ==
    [][\A t \in TaskIds :
          /\ Transits(t) => OneEventMore(tasks[t].alert, tasks'[t].alert)
          /\ ResolvesNow(t) => OneEventMore(tasks[t].alert, tasks'[t].alert)
          /\ ExpiresNow(t)
                => \A i \in AlertIds :
                       i = Head(tasks[t].list).alertId
                           => OneEventMore(Head(tasks[t].list), SavedNow(i))
          /\ (Evaluates(t) /\ ActionNow(t) \in {NoAction, Thrown})
                => /\ tasks'[t].alert = tasks[t].alert
                   /\ UNCHANGED <<redisStore, memoryStore>>
          /\ (Evaluates(t) /\ ActionNow(t) \notin {NoAction, Thrown})
                => Transits(t)]_vars

\* C32 witness: an alert escalated from OPEN and MEDIUM by its first
\* evaluation has been auto-closed by a later one; its history holds the
\* ESCALATED event with OPEN and MEDIUM and the AUTO_CLOSED event with
\* ESCALATED as what was before
C32_Witness ==
    \E t \in TaskIds :
        /\ tasks[t].pc = "saved"
        /\ Len(tasks[t].alert.history) = 3
        /\ tasks[t].alert.history[2].action = "ESCALATED"
        /\ tasks[t].alert.history[2].previousStatus = "OPEN"
        /\ tasks[t].alert.history[2].previousSeverity = "MEDIUM"
        /\ tasks[t].alert.history[3].action = "AUTO_CLOSED"
        /\ tasks[t].alert.history[3].previousStatus = "ESCALATED"
        /\ stored(tasks[t].alert.alertId) = toJSON(tasks[t].alert)

\* the evaluation of task t escalates its alert by the age rule in this step
EscalatesByAge(t) ==
    /\ Transits(t)
    /\ LastEvent(tasks'[t].alert).action = "ESCALATED"
    /\ LastEvent(tasks'[t].alert).details = "Alert aged"

\* C33: the age rule escalates only an alert whose status is OPEN: an alert
\* that is ESCALATED when it is evaluated is not escalated by the age rule,
\* however old it is and whether or not its cooldown is over, and is not
\* escalated at all when the count rule does not apply
C33_AgeRuleOnOpenOnly ==
    [][\A t \in TaskIds :
          /\ EscalatesByAge(t) => tasks[t].alert.status = "OPEN"
          /\ (/\ Evaluates(t)
              /\ tasks[t].alert.status = "ESCALATED"
              /\ ~CountMet(tasks[t].alert))
                => /\ tasks'[t].alert.escalationCount
                          = tasks[t].alert.escalationCount
                   /\ tasks'[t].alert.severity = tasks[t].alert.severity]_vars

\* C33 witness: a sweep has evaluated an alert that was escalated by the
\* age rule, is still over the age threshold and is past its cooldown, and
\* has left it with its one escalation
C33_Witness ==
    \E t \in TaskIds :
        /\ Sweeping(t)
        /\ tasks[t].pc = "loop"
        /\ tasks[t].alert # NoAlert
        /\ ~tasks[t].skipped
        /\ tasks[t].alert.status = "ESCALATED"
        /\ LastEvent(tasks[t].alert).details = "Alert aged"
        /\ AgedOut(tasks[t].alert)
        /\ canEscalate(tasks[t].alert, now)
        /\ tasks[t].alert.escalationCount = 1
        /\ stored(tasks[t].alert.alertId) = toJSON(tasks[t].alert)

\* two alerts of one source type that both carry no driver and differ in
\* the vehicle, or both carry no vehicle and differ in the driver
Unrelated(a, b) ==
    /\ a.alertId # b.alertId
    /\ a.sourceType = b.sourceType
    /\ \/ /\ a.metadata.driverId = Undef
          /\ b.metadata.driverId = Undef
          /\ a.metadata.vehicleId # b.metadata.vehicleId
       \/ /\ a.metadata.vehicleId = Undef
          /\ b.metadata.vehicleId = Undef
          /\ a.metadata.driverId # b.metadata.driverId

\* C34: an alert of the same source type that carries no driverId, as the
\* subject does, and another vehicleId (or no vehicleId, as the subject, and
\* another driverId) is not among the alerts the count-in-window rule counts
\* for the subject
C34_UnrelatedNotCounted ==
    \A i \in AlertIds :
        (exists(i) /\ HasCountRule(stored(i)))
            => \A k \in recentAlerts(stored(i), ruleOf(stored(i)),
                                     getAllAlerts, now) :
                   ~Unrelated(getAllAlerts[k], stored(i))

\* C35: an evaluation of an alert whose source type has no rule leaves the
\* alert and every stored record as they are, and the stored status of such
\* an alert changes only in a step of resolveAlert or of the expiry sweep
C35_NoRuleNoAction ==
    [][/\ \A t \in TaskIds :
             (Evaluates(t) /\ ruleOf(tasks[t].alert) = NoRule)
                 => /\ tasks'[t].alert = tasks[t].alert
                    /\ UNCHANGED <<redisStore, memoryStore>>
       /\ \A i \in AlertIds :
             (/\ exists(i)
              /\ stored(i)' # NoAlert
              /\ ruleOf(stored(i)) = NoRule
              /\ stored(i)'.status # stored(i).status)
                 => \E t \in TaskIds :
                        /\ \/ ResolvesNow(t)
                           \/ ExpiresNow(t) /\ Head(tasks[t].list).alertId = i
                        /\ stored(i)'.status \in {"RESOLVED", "EXPIRED"}]_vars

\* C35 witness: a sweep has evaluated an alert of a source type that the
\* loaded rules do not name, seven days or more after its creation, and has
\* left it OPEN with the history of its creation
C35_Witness ==
    \E t \in TaskIds :
        /\ Sweeping(t)
        /\ tasks[t].pc = "loop"
        /\ tasks[t].alert # NoAlert
        /\ ~tasks[t].skipped
        /\ ~tasks[t].threw
        /\ rules # NullRules
        /\ ruleOf(tasks[t].alert) = NoRule
        /\ tasks[t].alert.status = "OPEN"
        /\ Len(tasks[t].alert.history) = 1
        /\ now - tasks[t].alert.timestamp >= 7 * MinutesPerDay
        /\ stored(tasks[t].alert.alertId) = toJSON(tasks[t].alert)

-----------------------------------------------------------------------------
(* The stored records *)

\* the ESCALATED events of a history
escalations(history) ==
    {k \in 1 .. Len(history) : history[k].action = "ESCALATED"}

\* the record counts the ESCALATED events of its history
Counted(r) == r.escalationCount = Cardinality(escalations(r.history))

\* the Alert objects an operation holds in task t
held(t) ==
    {tasks[t].list[k] : k \in 1 .. Len(tasks[t].list)}
        \cup (IF tasks[t].alert = NoAlert THEN {} ELSE {tasks[t].alert})

\* toJSON hands this.history itself to the Map, and new Alert(data) takes
\* data.history itself: while the Map is the store, the record of an id and
\* the Alert objects of that id that operations hold have one history array,
\* so a copy of the history stands for it only if it never differs from the
\* history of the record
OneHistoryArray ==
    ~connected
        => \A t \in TaskIds : \A a \in held(t) :
               memoryStore[a.alertId] # NoAlert
                   => a.history = memoryStore[a.alertId].history

\* C36: for every record of either store, escalationCount is the number of
\* ESCALATED events of its history, in every interleaving of operations,
\* and in the fallback store the record and the Alert objects built from it
\* or saved into it show the same history
C36_CountMatchesHistory ==
    /\ \A i \in AlertIds :
          /\ redisStore[i] # NoAlert => Counted(redisStore[i])
          /\ memoryStore[i] # NoAlert => Counted(memoryStore[i])
    /\ \A t \in TaskIds : \A a \in held(t) : Counted(a)
    /\ OneHistoryArray

\* C36 witness: in the fallback store an alert escalated by its first
\* evaluation has been resolved: its record, saved three times, holds one
\* ESCALATED event and escalationCount 1, as the object of the operation does
C36_Witness ==
    \E t \in TaskIds :
        /\ ~connected
        /\ tasks[t].kind = "resolve"
        /\ tasks[t].pc = "done"
        /\ tasks[t].alert # NoAlert
        /\ memoryStore[tasks[t].alert.alertId] = toJSON(tasks[t].alert)
        /\ tasks[t].alert.status = "RESOLVED"
        /\ tasks[t].alert.escalationCount = 1
        /\ Len(tasks[t].alert.history) = 3
        /\ tasks[t].alert.history[2].action = "ESCALATED"

\* the status of a record agrees with its timestamps and its count
Consistent(r) ==
    /\ r.status = "RESOLVED" => r.resolvedAt # Null
    /\ r.status = "EXPIRED" => r.expiredAt # Null
    /\ r.status = "ESCALATED"
          => r.lastEscalatedAt # Null /\ r.escalationCount >= 1
    /\ r.status = "OPEN"
          => /\ r.escalationCount = 0
             /\ r.resolvedAt = Null
             /\ r.expiredAt = Null
             /\ r.lastEscalatedAt = Null

\* C37: every stored alert that is RESOLVED has resolvedAt, that is EXPIRED
\* has expiredAt, that is ESCALATED has lastEscalatedAt and a count of at
\* least one, and that is OPEN has a count of zero and none of the three
\* timestamps
C37_StatusAgreesWithFields ==
    \A i \in AlertIds :
        /\ redisStore[i] # NoAlert => Consistent(redisStore[i])
        /\ memoryStore[i] # NoAlert => Consistent(memoryStore[i])

\* C37 witness: a stored alert that was escalated and then resolved: it is
\* RESOLVED with resolvedAt, and keeps the time and count of its escalation
C37_Witness ==
    \E i \in AlertIds :
        /\ exists(i)
        /\ stored(i).status = "RESOLVED"
        /\ stored(i).resolvedAt # Null
        /\ stored(i).lastEscalatedAt # Null
        /\ stored(i).escalationCount >= 1

\* the positions of the CREATED events of a history
creations(history) ==
    {k \in 1 .. Len(history) : history[k].action = "CREATED"}

\* C38: the history of every stored alert has exactly one CREATED event, its
\* first, however often the alert was rebuilt from its record and saved
C38_OneCreatedEvent ==
    \A i \in AlertIds :
        /\ redisStore[i] # NoAlert => creations(redisStore[i].history) = {1}
        /\ memoryStore[i] # NoAlert => creations(memoryStore[i].history) = {1}

\* C38 witness: a request has rebuilt an alert from its record in Redis,
\* changed it and saved it, after an evaluation had done the same: the
\* record has three events and the first is the only CREATED event
C38_Witness ==
    \E t \in TaskIds :
        /\ connected
        /\ tasks[t].pc = "done"
        /\ tasks[t].alert # NoAlert
        /\ redisStore[tasks[t].alert.alertId] = toJSON(tasks[t].alert)
        /\ Len(tasks[t].alert.history) >= 3
        /\ creations(tasks[t].alert.history) = {1}

\* no value is twice in the sequence
NoRepeat(seq) ==
    \A j, k \in 1 .. Len(seq) : seq[j] = seq[k] => j = k

\* C39: in the fallback store the array of every driver and of every
\* vehicle holds an alert id at most once, and getAlertsByDriver gives no
\* alert twice
C39_IndexHoldsIdOnce ==
    /\ \A d \in Drivers : NoRepeat(alertsByDriver[d])
    /\ \A v \in Vehicles : NoRepeat(alertsByVehicle[v])
    /\ ~connected
          => \A d \in Drivers, limit \in Limits :
                 NoRepeat(idsOf(getAlertsByDriver(d, limit)))

(* Save and get *)

\* the fields of the alert that a get after a save is to give back
SameSaved(got, alert) ==
    /\ got # NoAlert
    /\ got.status = alert.status
    /\ got.severity = alert.severity
    /\ got.escalationCount = alert.escalationCount
    /\ got.history = alert.history

\* C40: when a request or an evaluation has saved its alert, getAlert of the
\* id, asked with Redis as it was during the save, gives an alert with the
\* saved status, severity, escalationCount and history, also when the
\* commands of the save failed
C40_SaveThenGet ==
    [][\A t \in TaskIds :
          (Saves(t) \/ Transits(t))
              => \A i \in AlertIds :
                     i = tasks'[t].alert.alertId
                         => SameSaved(getAlert(i)', tasks'[t].alert)]_vars

=============================================================================
